---- MODULE Spec2Model ----
(***************************************************************************)
(* Model of the profile analysis engine of samply                         *)
(* (samply/src/profile_analysis.rs): the table accessors and the stack    *)
(* walker of ThreadData, and the queries of ProfileAnalyzer               *)
(* (compute_hotspots, find_callers, find_callees, drilldown,              *)
(* find_matching_function, get_summary), the decoding of a profile        *)
(* (from_file, from_raw_profile), the session file (samply/src/session.rs),*)
(* the `analyze serve` command (samply/src/main.rs) and the HTTP service  *)
(* of the analysis server (samply/src/server.rs).                          *)
(*                                                                         *)
(* Conventions.  A Rust Vec is a sequence, indexed from 0 through At.     *)
(* Option<T> is <<>> (None) or <<x>> (Some(x)).  A String is a sequence   *)
(* of one-character strings.  A HashMap is a function; its iteration      *)
(* order is unspecified, so every place where the code iterates a map     *)
(* and the order can be observed is a choice (\E) over the orders.  An    *)
(* f64 percentage is the exact fraction <<numerator, denominator>> with   *)
(* a positive denominator.                                                 *)
(***************************************************************************)
EXTENDS Integers, Sequences, FiniteSets, TLC

VARIABLES prof, pc, res, dd, wk, raw, disk, srv, prev

\* raw: the profile file given to the decoder; disk: the session file;
\* srv: the analysis server and the serve command; prev: the response of
\* the previous execution of a query
hostvars == <<raw, disk, srv, prev>>

vars == <<prof, pc, res, dd, wk, raw, disk, srv, prev>>

\* ------------------------------------------------------------------------
\* Option, Vec and String helpers
\* ------------------------------------------------------------------------
None == <<>>

Some(x) == <<x>>

IsSome(o) == o # <<>>

Unwrap(o) == o[1]

At(v, i) == v[i + 1]

Range(s) == {s[i] : i \in DOMAIN s}

Min(a, b) == IF a < b THEN a ELSE b

\* str::contains: p occurs in s as a contiguous substring
Contains(s, p) == \E i \in 0..(Len(s) - Len(p)) : SubSeq(s, i + 1, i + Len(p)) = p

\* Vec::truncate / Iterator::take
Take(s, n) == SubSeq(s, 1, Min(n, Len(s)))

\* the sequences that list every element of the set S exactly once
Perms(S) == {p \in [1..Cardinality(S) -> S] : \A x \in S : \E i \in DOMAIN p : p[i] = x}

RECURSIVE SumSeq(_)
SumSeq(s) == IF s = <<>> THEN 0 ELSE Head(s) + SumSeq(Tail(s))

RECURSIVE SumOver(_, _)
\* sum of f[x] over the finite set S
SumOver(f, S) ==
    IF S = {} THEN 0
    ELSE LET x == CHOOSE y \in S : TRUE IN f[x] + SumOver(f, S \ {x})

\* format!("{}", idx) for the small indices of the model
Digits(i) == <<ToString(i)>>

\* ------------------------------------------------------------------------
\* f64 percentages as exact fractions
\* ------------------------------------------------------------------------
Zero == <<0, 1>>

\* if total > 0 { 100.0 * n as f64 / total as f64 } else { 0.0 }
Percent(n, total) == IF total > 0 THEN <<100 * n, total>> ELSE Zero

FracLt(p, q) == p[1] * q[2] < q[1] * p[2]

FracLe(p, q) == p[1] * q[2] <= q[1] * p[2]

FracAdd(p, q) == <<p[1] * q[2] + q[1] * p[2], p[2] * q[2]>>

RECURSIVE FracSum(_)
FracSum(s) == IF s = <<>> THEN Zero ELSE FracAdd(Head(s), FracSum(Tail(s)))

Hundred == <<100, 1>>

\* ------------------------------------------------------------------------
\* ThreadData accessors
\* ------------------------------------------------------------------------
get_string(t, idx, global_strings) ==
    IF idx < Len(t.string_table) THEN At(t.string_table, idx)
    ELSE IF idx < Len(global_strings) THEN At(global_strings, idx)
    ELSE <<"<", "s", "t", "r", "i", "n", "g", " ">> \o Digits(idx) \o <<">">>

get_func_name(t, func_idx, global_strings) ==
    IF func_idx < Len(t.func_name_idx)
    THEN get_string(t, At(t.func_name_idx, func_idx), global_strings)
    ELSE <<"<", "f", "u", "n", "c", " ">> \o Digits(func_idx) \o <<">">>

get_frame_func(t, frame_idx) ==
    IF frame_idx < Len(t.frame_func) THEN At(t.frame_func, frame_idx) ELSE 0

get_stack_frame(t, stack_idx) ==
    IF stack_idx < Len(t.stack_frame) THEN At(t.stack_frame, stack_idx) ELSE 0

get_stack_prefix(t, stack_idx) ==
    IF stack_idx < Len(t.stack_prefix) THEN At(t.stack_prefix, stack_idx) ELSE None

\* one turn of the loop of walk_stack_with_frames: the pair it pushes for idx
walk_entry(t, idx) ==
    LET frame_idx == get_stack_frame(t, idx)
    IN  <<get_frame_func(t, frame_idx), frame_idx>>

RECURSIVE walk_stack_with_frames(_, _)
\* leaf-to-root list of (func_idx, frame_idx); defined when the loop ends
walk_stack_with_frames(t, stack_idx) ==
    LET next == get_stack_prefix(t, stack_idx)
    IN  <<walk_entry(t, stack_idx)>> \o
        (IF IsSome(next) THEN walk_stack_with_frames(t, Unwrap(next)) ELSE <<>>)

\* walk_stack: the same loop, keeping the function indices only
walk_stack(t, stack_idx) ==
    LET w == walk_stack_with_frames(t, stack_idx)
    IN  [i \in DOMAIN w |-> w[i][1]]

RECURSIVE ChainEnds(_, _, _)
\* the prefix chain from stack_idx reaches None within n hops
ChainEnds(t, stack_idx, n) ==
    LET next == get_stack_prefix(t, stack_idx)
    IN  IF ~IsSome(next) THEN TRUE
        ELSE IF n = 0 THEN FALSE
        ELSE ChainEnds(t, Unwrap(next), n - 1)

\* the while loop of walk_stack ends for this start index: a chain that
\* makes more hops than the table has rows repeats a row and never ends
WalkEnds(t, stack_idx) == ChainEnds(t, stack_idx, Len(t.stack_prefix))

\* ------------------------------------------------------------------------
\* The decoded profiles of the model
\* ------------------------------------------------------------------------
\* sample weights are i64: a negative one and two positive ones
Weights == {-1, 1, 2}

A == <<"a">>

B == <<"b">>

AB == <<"a", "b">>

\* shared.stringArray
GlobalStrings == <<A, B, AB>>

Sample(stack, weight) == [stack |-> stack, weight |-> weight]

\* the samples table of a thread: a sample on the deepest stack, then
\* nothing, a sample without a stack, or a sample on its parent stack
SampleTables ==
    {<<Sample(Some(2), w)>> : w \in Weights}
    \cup {<<Sample(Some(2), w), Sample(None, 1)>> : w \in Weights}
    \cup {<<Sample(Some(2), w[1]), Sample(Some(1), w[2])>> : w \in Weights \X Weights}

StackTable(prefix, frame) == [prefix |-> prefix, frame |-> frame]

\* a root with two children, and a chain of three functions
PlainStackTables ==
    { StackTable(<<None, Some(0), Some(0)>>, <<0, 1, 2>>),
      StackTable(<<None, Some(0), Some(1)>>, <<0, 1, 2>>) }

\* stack tables without a cycle: the plain ones, a chain that re-enters its
\* root function, and a chain whose root function calls itself
StackTables ==
    PlainStackTables
    \cup { StackTable(<<None, Some(0), Some(1)>>, <<0, 1, 0>>),
           StackTable(<<None, Some(0), Some(1)>>, <<0, 0, 1>>) }

\* stack tables whose prefix chain has a cycle (the decoder accepts them)
CyclicStackTables ==
    { StackTable(<<Some(0)>>, <<0>>),
      StackTable(<<Some(1), Some(0)>>, <<0, 1>>),
      StackTable(<<None, Some(2), Some(1)>>, <<0, 1, 2>>) }

ThreadData(name, strings, funcs, st, samples) ==
    [ name          |-> name,
      samples       |-> samples,
      stack_prefix  |-> st.prefix,
      stack_frame   |-> st.frame,
      frame_func    |-> <<0, 1, 2>>,
      func_name_idx |-> funcs,
      string_table  |-> strings,
      \* the columns only get_asm reads, empty unless a profile fills them
      frame_address       |-> <<>>,
      frame_line          |-> <<>>,
      frame_native_symbol |-> <<>>,
      func_file_idx       |-> <<>>,
      func_resource       |-> <<>>,
      resource_lib        |-> <<>>,
      native_symbols      |-> <<>> ]

\* first thread: no local strings; functions "ab", "b"; frame 2 names a
\* function index past the end of the function table
FirstThreads ==
    {ThreadData(<<"m">>, <<>>, <<2, 1>>, st, sm) : st \in StackTables, sm \in SampleTables}
    \cup {ThreadData(<<"m">>, <<>>, <<2, 1>>, st, <<Sample(Some(Len(st.prefix) - 1), 1)>>) :
              st \in CyclicStackTables}

\* second thread: local strings laid over the global ones; functions "b",
\* "a", "ab"; one sample
SecondThreads ==
    {ThreadData(<<"m", "w">>, <<B, A>>, <<0, 1, 2>>, st, <<Sample(Some(i), w)>>) :
         st \in PlainStackTables, i \in {1, 2}, w \in Weights}

Profile(threads) ==
    [global_strings |-> GlobalStrings, threads |-> threads, libs |-> <<>>]

Profiles ==
    {Profile(<<>>)}
    \cup {Profile(<<t>>) : t \in FirstThreads}
    \cup {Profile(<<t[1], t[2]>>) : t \in FirstThreads \X SecondThreads}

\* ------------------------------------------------------------------------
\* compute_hotspots
\* ------------------------------------------------------------------------
DefaultFuncStats ==
    [self_samples |-> 0, total_samples |-> 0, func_idx |-> None, thread_idx |-> None]

\* HashMap::entry(k).or_default()
OrDefault(m, k, d) == IF k \in DOMAIN m THEN m ELSE m @@ (k :> d)

\* if stats.func_idx.is_none() { func_idx = Some(..); thread_idx = Some(..) }
FirstSeen(st, func_idx, thread_idx) ==
    IF st.func_idx = None
    THEN [st EXCEPT !.func_idx = Some(func_idx), !.thread_idx = Some(thread_idx)]
    ELSE st

\* self time: the weight goes to the function of the leaf (first) entry
AddSelf(fs, name, func_idx, thread_idx, weight) ==
    LET m == OrDefault(fs, name, DefaultFuncStats)
    IN  [m EXCEPT ![name] =
            FirstSeen([@ EXCEPT !.self_samples = @ + weight], func_idx, thread_idx)]

RECURSIVE AddTotal_EveryOccurrence(_, _, _, _, _)
\* total time without the seen set: the weight goes to a name once for each
\* of its occurrences in the walk
AddTotal_EveryOccurrence(fs, seen, names, thread_idx, weight) ==
    IF names = <<>> THEN fs
    ELSE LET name == Head(names)[1]
             m == OrDefault(fs, name, DefaultFuncStats)
             m2 == [m EXCEPT ![name] =
                       FirstSeen([@ EXCEPT !.total_samples = @ + weight],
                                 Head(names)[2], thread_idx)]
         IN  AddTotal_EveryOccurrence(m2, seen, Tail(names), thread_idx, weight)

RECURSIVE AddTotal(_, _, _, _, _)
\* total time: the weight goes once to each function name of the walk;
\* names is the walk as (name, func_idx) pairs, seen the HashSet
AddTotal(fs, seen, names, thread_idx, weight) ==
    IF names = <<>> THEN fs
    ELSE LET name == Head(names)[1]
         IN  IF name \in seen
             THEN AddTotal(fs, seen, Tail(names), thread_idx, weight)
             ELSE LET m == OrDefault(fs, name, DefaultFuncStats)
                      m2 == [m EXCEPT ![name] =
                                FirstSeen([@ EXCEPT !.total_samples = @ + weight],
                                          Head(names)[2], thread_idx)]
                  IN  AddTotal(m2, seen \cup {name}, Tail(names), thread_idx, weight)

\* the walk of a sample's stack as (name, func_idx) pairs, leaf first
NamedWalk(p, t, stack_idx) ==
    LET w == walk_stack_with_frames(t, stack_idx)
    IN  [i \in DOMAIN w |-> <<get_func_name(t, w[i][1], p.global_strings), w[i][1]>>]

\* the body of the sample loop of compute_hotspots
HotspotsSample(acc, p, ti, s) ==
    LET tw == acc.total_weight + s.weight
    IN  IF IsSome(s.stack)
        THEN LET names == NamedWalk(p, p.threads[ti], Unwrap(s.stack))
                 fs1 == IF names = <<>> THEN acc.func_stats
                        ELSE AddSelf(acc.func_stats, names[1][1], names[1][2],
                                     ti - 1, s.weight)
             IN  [func_stats |-> AddTotal(fs1, {}, names, ti - 1, s.weight),
                  total_weight |-> tw]
        ELSE [acc EXCEPT !.total_weight = tw]

\* a sort with the comparison the other way round: self_samples ascending
SortedBySelf_Ascending(fs) ==
    {o \in Perms(DOMAIN fs) :
        \A i, j \in DOMAIN o : i < j => fs[o[i]].self_samples <= fs[o[j]].self_samples}

\* hotspots.sort_by(|a, b| b.1.self_samples.cmp(&a.1.self_samples)) of the
\* map's entries: the sort is stable and the map's order is unspecified
SortedBySelf(fs) ==
    {o \in Perms(DOMAIN fs) :
        \A i, j \in DOMAIN o : i < j => fs[o[i]].self_samples >= fs[o[j]].self_samples}

HotspotEntry(i, name, stats, total_weight) ==
    [ rank          |-> i,
      name          |-> name,
      self_samples  |-> stats.self_samples,
      total_samples |-> stats.total_samples,
      self_percent  |-> Percent(stats.self_samples, total_weight),
      total_percent |-> Percent(stats.total_samples, total_weight) ]

\* .into_iter().take(limit).enumerate().map(..).collect()
HotspotList(order, fs, total_weight, limit) ==
    LET top == Take(order, limit)
    IN  [i \in DOMAIN top |-> HotspotEntry(i, top[i], fs[top[i]], total_weight)]

\* ------------------------------------------------------------------------
\* find_matching_function
\* ------------------------------------------------------------------------
RECURSIVE FuncNames(_, _)
\* the resolved names of the function tables, thread by thread, row by row:
\* the order in which both loops of find_matching_function meet them
FuncNames(p, ti) ==
    IF ti > Len(p.threads) THEN <<>>
    ELSE LET t == p.threads[ti]
         IN  [i \in DOMAIN t.func_name_idx |->
                  get_string(t, t.func_name_idx[i], p.global_strings)]
             \o FuncNames(p, ti + 1)

RECURSIVE FirstEqual(_, _)
\* first loop: the first name with name == pattern, as an Option
FirstEqual(names, pattern) ==
    IF names = <<>> THEN None
    ELSE IF Head(names) = pattern THEN Some(Head(names))
    ELSE FirstEqual(Tail(names), pattern)

RECURSIVE FirstContaining(_, _)
\* second loop: the first name with name.contains(pattern), as an Option
FirstContaining(names, pattern) ==
    IF names = <<>> THEN None
    ELSE IF Contains(Head(names), pattern) THEN Some(Head(names))
    ELSE FirstContaining(Tail(names), pattern)

\* a resolution in one pass: the first name that equals or contains the pattern
find_matching_function_OnePass(p, pattern) ==
    LET sub == FirstContaining(FuncNames(p, 1), pattern)
    IN  IF IsSome(sub) THEN Unwrap(sub) ELSE pattern

find_matching_function(p, pattern) ==
    LET names == FuncNames(p, 1)
        exact == FirstEqual(names, pattern)
        sub == FirstContaining(names, pattern)
    IN  IF IsSome(exact) THEN Unwrap(exact)
        ELSE IF IsSome(sub) THEN Unwrap(sub)
        ELSE pattern

\* ------------------------------------------------------------------------
\* drilldown
\* ------------------------------------------------------------------------
\* an edge recorded the other way round
AddCallee_Swapped(cm, caller, callee, weight) ==
    LET m == OrDefault(cm, callee, <<>>)
    IN  [m EXCEPT ![callee] =
            LET inner == OrDefault(@, caller, 0)
            IN  [inner EXCEPT ![caller] = @ + weight]]

\* callee_map.entry(caller).or_default().entry(callee).or_default().samples += weight
AddCallee(cm, caller, callee, weight) ==
    LET m == OrDefault(cm, caller, <<>>)
    IN  [m EXCEPT ![caller] =
            LET inner == OrDefault(@, callee, 0)
            IN  [inner EXCEPT ![callee] = @ + weight]]

RECURSIVE AddCalleePairs(_, _, _, _)
\* for i in 0..func_info.len().saturating_sub(1): entry i is the callee of
\* entry i + 1
AddCalleePairs(cm, names, i, weight) ==
    IF i + 1 > Len(names) - 1 THEN cm
    ELSE AddCalleePairs(AddCallee(cm, names[i + 2][1], names[i + 1][1], weight),
                        names, i + 1, weight)

\* the body of the sample loop of drilldown
DrilldownSample(acc, p, ti, s) ==
    LET tw == acc.total_weight + s.weight
    IN  IF IsSome(s.stack)
        THEN LET names == NamedWalk(p, p.threads[ti], Unwrap(s.stack))
                 fs1 == IF names = <<>> THEN acc.func_stats
                        ELSE AddSelf(acc.func_stats, names[1][1], names[1][2],
                                     ti - 1, s.weight)
             IN  [func_stats |-> AddTotal(fs1, {}, names, ti - 1, s.weight),
                  callee_map |-> AddCalleePairs(acc.callee_map, names, 0, s.weight),
                  total_weight |-> tw]
        ELSE [acc EXCEPT !.total_weight = tw]

\* callee_map.get(&current): the inner map, empty when there is none
CalleesOf(cm, current) == IF current \in DOMAIN cm THEN cm[current] ELSE <<>>

DrilldownCallee(name, percent, is_hottest) ==
    [name |-> name, percent |-> percent, is_hottest |-> is_hottest]

\* the callees vector of a node: the inner map's entries with their share of
\* callee_total, sorted by percent descending (stable, from an unspecified
\* map order), the first one marked as hottest
CalleeLists(cm, current) ==
    LET inner == CalleesOf(cm, current)
        callee_total == SumOver(inner, DOMAIN inner)
        pct(n) == Percent(inner[n], callee_total)
        orders == {o \in Perms(DOMAIN inner) :
                      \A i, j \in DOMAIN o : i < j => FracLe(pct(o[j]), pct(o[i]))}
    IN  {[i \in DOMAIN o |->
             DrilldownCallee(o[i], pct(o[i]), IF i = 1 THEN Some(TRUE) ELSE None)] :
         o \in orders}

RECURSIVE MaxBy(_, _)
\* Iterator::max_by on percent over a non-empty list, starting from best:
\* a later element replaces the best one unless it compares less
MaxBy(best, rest) ==
    IF rest = <<>> THEN best
    ELSE MaxBy(IF FracLt(Head(rest).percent, best.percent) THEN best ELSE Head(rest),
               Tail(rest))

\* prev_node.callees.iter().filter(|c| !visited.contains(&c.name)).max_by(..)
NextUnvisited(callees, visited) ==
    LET cand == SelectSeq(callees, LAMBDA c : c.name \notin visited)
    IN  IF cand = <<>> THEN None ELSE Some(MaxBy(Head(cand), Tail(cand)))

\* a loop that does not record the functions it visits
MarkVisited_Forgets(visited, current) == visited

\* visited.insert(current.clone())
MarkVisited(visited, current) == visited \cup {current}

\* let is_bottleneck = self_percent > threshold_percent
IsBottleneck(self_percent, threshold) == FracLt(<<threshold, 1>>, self_percent)

\* a loop that goes on below a bottleneck
LoopBreaks_OnlyWithoutCallees(is_bottleneck, callees) == callees = <<>>

\* the turn ends in a break: a bottleneck was recorded, or there is no callee
LoopBreaks(is_bottleneck, callees) == is_bottleneck \/ callees = <<>>

StatsOf(fs, name) == IF name \in DOMAIN fs THEN fs[name] ELSE DefaultFuncStats

DrilldownNode(current, stats, total_weight, is_bottleneck, callees) ==
    [ function      |-> current,
      total_samples |-> stats.total_samples,
      total_percent |-> Percent(stats.total_samples, total_weight),
      self_samples  |-> stats.self_samples,
      self_percent  |-> Percent(stats.self_samples, total_weight),
      is_bottleneck |-> IF is_bottleneck THEN Some(TRUE) ELSE None,
      callees       |-> callees ]

BottleneckSummary(current, self_percent) ==
    [function |-> current, self_percent |-> self_percent]

\* top_funcs sorted by total_samples descending (stable, from an unspecified
\* map order), the first five, each with its share of total_weight
SuggestionLists(fs, total_weight) ==
    LET orders == {o \in Perms(DOMAIN fs) :
                      \A i, j \in DOMAIN o :
                          i < j => fs[o[i]].total_samples >= fs[o[j]].total_samples}
    IN  {LET top == Take(o, 5)
         IN  [i \in DOMAIN top |->
                 [name |-> top[i],
                  percent |-> Percent(fs[top[i]].total_samples, total_weight)]] :
         o \in orders}

\* ------------------------------------------------------------------------
\* find_callers and find_callees
\* ------------------------------------------------------------------------
DefaultFuncData == [count |-> 0, func_idx |-> None, thread_idx |-> None]

\* data = map.entry(outer).or_default().entry(inner).or_default();
\* data.count += weight; first-seen indices of the inner function
AddEdge(m, outer, inner, func_idx, thread_idx, weight) ==
    LET m1 == OrDefault(m, outer, <<>>)
    IN  [m1 EXCEPT ![outer] =
            LET im == OrDefault(@, inner, DefaultFuncData)
            IN  [im EXCEPT ![inner] =
                    FirstSeen([@ EXCEPT !.count = @ + weight], func_idx, thread_idx)]]

\* walk_stack(stack_idx) mapped to (name, func_idx) pairs
NamedWalkFuncs(p, t, stack_idx) ==
    LET w == walk_stack(t, stack_idx)
    IN  [i \in DOMAIN w |-> <<get_func_name(t, w[i], p.global_strings), w[i]>>]

RECURSIVE AddCallerPairs(_, _, _, _, _)
\* find_callers: caller_data[callee][caller] for each adjacent pair
AddCallerPairs(m, names, i, thread_idx, weight) ==
    IF i + 1 > Len(names) - 1 THEN m
    ELSE AddCallerPairs(AddEdge(m, names[i + 1][1], names[i + 2][1],
                                names[i + 2][2], thread_idx, weight),
                        names, i + 1, thread_idx, weight)

RECURSIVE AddCalleeDataPairs(_, _, _, _, _)
\* find_callees: callee_data[caller][callee] for each adjacent pair
AddCalleeDataPairs(m, names, i, thread_idx, weight) ==
    IF i + 1 > Len(names) - 1 THEN m
    ELSE AddCalleeDataPairs(AddEdge(m, names[i + 2][1], names[i + 1][1],
                                    names[i + 1][2], thread_idx, weight),
                            names, i + 1, thread_idx, weight)

CallersSample(acc, p, ti, s) ==
    IF IsSome(s.stack)
    THEN AddCallerPairs(acc, NamedWalkFuncs(p, p.threads[ti], Unwrap(s.stack)),
                        0, ti - 1, s.weight)
    ELSE acc

CalleesSample(acc, p, ti, s) ==
    IF IsSome(s.stack)
    THEN AddCalleeDataPairs(acc, NamedWalkFuncs(p, p.threads[ti], Unwrap(s.stack)),
                            0, ti - 1, s.weight)
    ELSE acc

CallerEntry(name, call_count, percent, callers) ==
    [name |-> name, call_count |-> call_count, percent |-> percent, callers |-> callers]

CalleeEntry(name, call_count, percent, callees) ==
    [name |-> name, call_count |-> call_count, percent |-> percent, callees |-> callees]

\* the orders a stable sort by count descending can leave a map's keys in
SortedByCount(inner) ==
    {o \in Perms(DOMAIN inner) :
        \A i, j \in DOMAIN o : i < j => inner[o[i]].count >= inner[o[j]].count}

\* one subtree for each key, each out of the results possible for that key
SubtreeChoices(names, sub) ==
    {f \in [names -> UNION {sub[n] : n \in names}] : \A n \in names : f[n] \in sub[n]}

RECURSIVE build_caller_tree(_, _, _, _, _)
\* the vectors build_caller_tree can return: the map's order is unspecified
\* and the sort is stable, so entries of equal count come in any order
build_caller_tree(caller_data, target, depth, limit, visited) ==
    IF depth = 0 \/ target \in visited THEN {<<>>}
    ELSE LET inner == CalleesOf(caller_data, target)
             names == DOMAIN inner
             sub == [n \in names |->
                        build_caller_tree(caller_data, n, depth - 1, limit,
                                          visited \cup {target})]
             total == SumSeq([i \in 1..Cardinality(names) |->
                                 inner[(CHOOSE o \in Perms(names) : TRUE)[i]].count])
         IN  {Take([i \in DOMAIN o |->
                       CallerEntry(o[i], inner[o[i]].count,
                                   Percent(inner[o[i]].count, total), f[o[i]])],
                   limit) :
              o \in SortedByCount(inner), f \in SubtreeChoices(names, sub)}

RECURSIVE build_callee_tree(_, _, _, _, _)
\* the vectors build_callee_tree can return
build_callee_tree(callee_data, target, depth, limit, visited) ==
    IF depth = 0 \/ target \in visited THEN {<<>>}
    ELSE LET inner == CalleesOf(callee_data, target)
             names == DOMAIN inner
             sub == [n \in names |->
                        build_callee_tree(callee_data, n, depth - 1, limit,
                                          visited \cup {target})]
             total == SumSeq([i \in 1..Cardinality(names) |->
                                 inner[(CHOOSE o \in Perms(names) : TRUE)[i]].count])
         IN  {Take([i \in DOMAIN o |->
                       CalleeEntry(o[i], inner[o[i]].count,
                                   Percent(inner[o[i]].count, total), f[o[i]])],
                   limit) :
              o \in SortedByCount(inner), f \in SubtreeChoices(names, sub)}

\* a loop without the filter's continue: every thread is aggregated
Selected_EveryThread(t, thread_filter) == TRUE

\* if let Some(filter) = thread_filter { if !thread.name.contains(filter) { continue } }
Selected(t, thread_filter) ==
    IsSome(thread_filter) => Contains(t.name, Unwrap(thread_filter))

\* ------------------------------------------------------------------------
\* get_asm: the accessors it reads and its aggregation pass
\* ------------------------------------------------------------------------
get_frame_address(t, frame_idx) ==
    IF frame_idx < Len(t.frame_address) THEN At(t.frame_address, frame_idx) ELSE None

get_frame_line(t, frame_idx) ==
    IF frame_idx < Len(t.frame_line) THEN At(t.frame_line, frame_idx) ELSE None

\* self.native_symbols.get(ns_idx) of the frame's native symbol index
get_frame_native_symbol(t, frame_idx) ==
    IF /\ frame_idx < Len(t.frame_native_symbol)
       /\ IsSome(At(t.frame_native_symbol, frame_idx))
       /\ Unwrap(At(t.frame_native_symbol, frame_idx)) < Len(t.native_symbols)
    THEN Some(At(t.native_symbols, Unwrap(At(t.frame_native_symbol, frame_idx))))
    ELSE None

get_func_file(t, func_idx, global_strings) ==
    IF func_idx < Len(t.func_file_idx) /\ IsSome(At(t.func_file_idx, func_idx))
    THEN Some(get_string(t, Unwrap(At(t.func_file_idx, func_idx)), global_strings))
    ELSE None

\* the library of the function's resource; func_resource holds Option<i32>
get_func_lib_index(t, func_idx) ==
    IF /\ func_idx < Len(t.func_resource)
       /\ IsSome(At(t.func_resource, func_idx))
       /\ Unwrap(At(t.func_resource, func_idx)) >= 0
       /\ Unwrap(At(t.func_resource, func_idx)) < Len(t.resource_lib)
    THEN At(t.resource_lib, Unwrap(At(t.func_resource, func_idx)))
    ELSE None

\* entry = address_data.entry(addr).or_insert((0, None)); entry.0 += weight;
\* the first line found for the address is kept
AddAddress(address_data, addr, weight, line) ==
    LET m == OrDefault(address_data, addr, [samples |-> 0, line |-> None])
    IN  [m EXCEPT ![addr] = [samples |-> @.samples + weight,
                             line    |-> IF @.line = None THEN line ELSE @.line]]

\* the self time of every sample, whatever function its leaf belongs to
IsTarget_AnyLeaf(name, target) == TRUE

\* if name == target
IsTarget(name, target) == name = target

\* the body of the sample loop of get_asm: only a sample whose leaf function
\* is the target counts
AsmSample(acc, p, ti, s) ==
    IF ~IsSome(s.stack) THEN acc
    ELSE LET t == p.threads[ti]
             leaf == walk_stack_with_frames(t, Unwrap(s.stack))[1]
             first == acc.func_idx = None
             addr == get_frame_address(t, leaf[2])
         IN  IF ~IsTarget(get_func_name(t, leaf[1], p.global_strings), acc.target)
             THEN acc
             ELSE [acc EXCEPT
                      !.self_samples = @ + s.weight,
                      !.func_idx = IF first THEN Some(leaf[1]) ELSE @,
                      !.thread_idx = IF first THEN Some(ti - 1) ELSE @,
                      !.lib_idx = IF first THEN get_func_lib_index(t, leaf[1]) ELSE @,
                      !.address_data =
                          IF IsSome(addr)
                          THEN AddAddress(@, Unwrap(addr), s.weight,
                                          get_frame_line(t, leaf[2]))
                          ELSE @]

\* ------------------------------------------------------------------------
\* The sample loops of the queries
\* ------------------------------------------------------------------------
\* the body of the sample loop of the query
SampleBody(query, acc, p, ti, s) ==
    CASE query = "hotspots" -> HotspotsSample(acc, p, ti, s)
      [] query = "drilldown" -> DrilldownSample(acc, p, ti, s)
      [] query = "callers" -> CallersSample(acc, p, ti, s)
      [] query = "callees" -> CalleesSample(acc, p, ti, s)
      [] query = "asm" -> AsmSample(acc, p, ti, s)

RECURSIVE FoldSamples(_, _, _, _, _)
\* for (stack_idx_opt, weight) in &thread.samples { body }, from sample si on
FoldSamples(query, acc, p, ti, si) ==
    IF si > Len(p.threads[ti].samples) THEN acc
    ELSE FoldSamples(query, SampleBody(query, acc, p, ti, p.threads[ti].samples[si]),
                     p, ti, si + 1)

RECURSIVE FoldThreads(_, _, _, _, _)
\* for (thread_idx, thread) in self.threads.iter().enumerate() { .. }, from
\* thread ti on; only compute_hotspots passes a filter
FoldThreads(query, acc, p, thread_filter, ti) ==
    IF ti > Len(p.threads) THEN acc
    ELSE IF Selected(p.threads[ti], thread_filter)
         THEN FoldThreads(query, FoldSamples(query, acc, p, ti, 1), p, thread_filter, ti + 1)
         ELSE FoldThreads(query, acc, p, thread_filter, ti + 1)

\* the aggregation pass of compute_hotspots: func_stats and total_weight
HotspotsAggregate(p, thread_filter) ==
    FoldThreads("hotspots", [func_stats |-> <<>>, total_weight |-> 0],
                p, thread_filter, 1)

\* the aggregation pass of drilldown (it takes no thread filter)
DrilldownAggregate(p) ==
    FoldThreads("drilldown",
                [func_stats |-> <<>>, callee_map |-> <<>>, total_weight |-> 0],
                p, None, 1)

\* the caller graph of find_callers: callee -> caller -> FuncData
CallerData(p) == FoldThreads("callers", <<>>, p, None, 1)

\* the callee graph of find_callees: caller -> callee -> FuncData
CalleeData(p) == FoldThreads("callees", <<>>, p, None, 1)

\* the aggregation pass of get_asm for the resolved target
AsmAggregate(p, target) ==
    FoldThreads("asm",
                [target |-> target, func_idx |-> None, thread_idx |-> None,
                 lib_idx |-> None, self_samples |-> 0, address_data |-> <<>>],
                p, None, 1)

\* the threads whose samples a pass with this filter walks all end
WalksEnd(p, thread_filter) ==
    \A ti \in DOMAIN p.threads :
        Selected(p.threads[ti], thread_filter) =>
            \A si \in DOMAIN p.threads[ti].samples :
                LET s == p.threads[ti].samples[si]
                IN  IsSome(s.stack) => WalkEnds(p.threads[ti], Unwrap(s.stack))

\* ------------------------------------------------------------------------
\* State machine: a decoded profile, and one query at a time against it
\* ------------------------------------------------------------------------
MaxLimit == 2

MaxDepth == 4

MaxTreeDepth == 2

WalkSlack == 2

NoResult == [kind |-> "none"]

NoDrilldown == [root |-> <<>>]

NoWalk == [thread |-> 0]

\* no profile file is being decoded
NoFile == [kind |-> "none"]

\* the session file does not exist
NoSessionFile == <<>>

\* no serve command is running
NoServer == [state |-> "none"]

\* function patterns of the queries: names of the profile, and one that
\* matches nothing
Patterns == {A, B, AB, <<"c">>}

\* self-time thresholds of drilldown, in percent (the server's default is 5)
Thresholds == {5, 60}

\* thread filters of the hotspots query: none, or a substring
ThreadFilters == {None, Some(<<"m">>), Some(<<"w">>)}

Init ==
    /\ prof \in Profiles
    /\ pc = "idle"
    /\ res = NoResult
    /\ dd = NoDrilldown
    /\ wk = NoWalk
    /\ raw = NoFile
    /\ disk = NoSessionFile
    /\ srv = NoServer
    /\ prev = NoResult

\* compute_hotspots(limit, thread_filter, false, false)
ComputeHotspots ==
    /\ pc = "idle"
    /\ \E limit \in 0..MaxLimit, thread_filter \in ThreadFilters :
          /\ WalksEnd(prof, thread_filter)
          /\ LET agg == HotspotsAggregate(prof, thread_filter)
             IN  \E order \in SortedBySelf(agg.func_stats) :
                    res' = [ kind          |-> "hotspots",
                             limit         |-> limit,
                             thread_filter |-> thread_filter,
                             func_stats    |-> agg.func_stats,
                             total_weight  |-> agg.total_weight,
                             hotspots      |-> HotspotList(order, agg.func_stats,
                                                           agg.total_weight, limit) ]
    /\ pc' = "done"
    /\ UNCHANGED <<prof, dd, wk>>
    /\ UNCHANGED hostvars

\* a query whose aggregation pass walks a stack with a cyclic prefix chain
\* never returns
QueryHangs ==
    /\ pc = "idle"
    /\ \E thread_filter \in ThreadFilters : ~WalksEnd(prof, thread_filter)
    /\ pc' = "hung"
    /\ UNCHANGED <<prof, res, dd, wk>>
    /\ UNCHANGED hostvars

\* walk_stack_with_frames(stack_idx) is entered: current = Some(stack_idx)
WalkStart ==
    /\ pc = "idle"
    /\ \E ti \in DOMAIN prof.threads :
          \E stack_idx \in 0..Len(prof.threads[ti].stack_prefix) :
              wk' = [thread |-> ti, start |-> stack_idx,
                     current |-> Some(stack_idx), result |-> <<>>]
    /\ pc' = "walk"
    /\ UNCHANGED <<prof, res, dd>>
    /\ UNCHANGED hostvars

\* one turn of while let Some(idx) = current { push; current = prefix }
WalkStep ==
    /\ pc = "walk"
    /\ IsSome(wk.current)
    /\ Len(wk.result) < Len(prof.threads[wk.thread].stack_prefix) + WalkSlack
    /\ LET t == prof.threads[wk.thread]
           idx == Unwrap(wk.current)
       IN  wk' = [wk EXCEPT !.result = Append(@, walk_entry(t, idx)),
                            !.current = get_stack_prefix(t, idx)]
    /\ UNCHANGED <<prof, pc, res, dd>>
    /\ UNCHANGED hostvars

\* current is None: the loop is left and the vector returned
WalkReturn ==
    /\ pc = "walk"
    /\ ~IsSome(wk.current)
    /\ res' = [kind |-> "walk", thread |-> wk.thread, start |-> wk.start,
               result |-> wk.result]
    /\ pc' = "done"
    /\ UNCHANGED <<prof, dd, wk>>
    /\ UNCHANGED hostvars

\* find_matching_function(pattern) on its own
FindMatchingFunction ==
    /\ pc = "idle"
    /\ \E pattern \in Patterns :
          res' = [kind |-> "match", pattern |-> pattern,
                  name |-> find_matching_function(prof, pattern)]
    /\ pc' = "done"
    /\ UNCHANGED <<prof, dd, wk>>
    /\ UNCHANGED hostvars

\* drilldown(pattern, max_depth, threshold) up to the head of its for loop:
\* the aggregation pass, the root, and the loop's variables
DrilldownStart ==
    /\ pc = "idle"
    /\ WalksEnd(prof, None)
    /\ \E pattern \in Patterns, max_depth \in 0..MaxDepth, threshold \in Thresholds :
          LET agg == DrilldownAggregate(prof)
              root == find_matching_function(prof, pattern)
          IN  dd' = [ pattern      |-> pattern,
                      max_depth    |-> max_depth,
                      threshold    |-> threshold,
                      func_stats   |-> agg.func_stats,
                      callee_map   |-> agg.callee_map,
                      total_weight |-> agg.total_weight,
                      root         |-> root,
                      depth        |-> 0,   \* turns of the for loop begun
                      broke        |-> FALSE,
                      path         |-> <<>>,
                      current      |-> root,
                      visited      |-> {},
                      bottleneck   |-> None ]
    /\ pc' = "drill"
    /\ UNCHANGED <<prof, res, wk>>
    /\ UNCHANGED hostvars

\* a turn of the for loop that finds current already visited: it moves on to
\* an unvisited callee of the last node of the path, or leaves the loop
DrilldownEscape ==
    /\ pc = "drill"
    /\ ~dd.broke
    /\ dd.depth < dd.max_depth
    /\ dd.current \in dd.visited
    /\ LET next_callee == IF dd.path = <<>> THEN None
                          ELSE NextUnvisited(dd.path[Len(dd.path)].callees, dd.visited)
       IN  dd' = [dd EXCEPT !.current = IF IsSome(next_callee)
                                        THEN Unwrap(next_callee).name ELSE @,
                            !.broke = ~IsSome(next_callee),
                            !.depth = @ + 1]
    /\ UNCHANGED <<prof, pc, res, wk>>
    /\ UNCHANGED hostvars

\* a turn of the for loop on an unvisited function: it pushes the node, and
\* stops at a bottleneck or a node without callees, else goes to callees[0]
DrilldownVisit ==
    /\ pc = "drill"
    /\ ~dd.broke
    /\ dd.depth < dd.max_depth
    /\ dd.current \notin dd.visited
    /\ \E callees \in CalleeLists(dd.callee_map, dd.current) :
          LET stats == StatsOf(dd.func_stats, dd.current)
              self_percent == Percent(stats.self_samples, dd.total_weight)
              is_bottleneck == IsBottleneck(self_percent, dd.threshold)
              node == DrilldownNode(dd.current, stats, dd.total_weight,
                                    is_bottleneck, callees)
              breaks == LoopBreaks(is_bottleneck, callees)
          IN  dd' = [dd EXCEPT
                        !.visited = MarkVisited(@, dd.current),
                        !.path = Append(@, node),
                        !.bottleneck = IF is_bottleneck
                                       THEN Some(BottleneckSummary(dd.current, self_percent))
                                       ELSE @,
                        !.broke = breaks,
                        !.current = IF breaks THEN @ ELSE callees[1].name,
                        !.depth = @ + 1]
    /\ UNCHANGED <<prof, pc, res, wk>>
    /\ UNCHANGED hostvars

\* after the loop: error and suggestions when the root has no samples, and
\* the response
DrilldownFinish ==
    /\ pc = "drill"
    /\ dd.broke \/ dd.depth >= dd.max_depth
    /\ LET root_has_samples == /\ dd.root \in DOMAIN dd.func_stats
                               /\ dd.func_stats[dd.root].total_samples > 0
       IN  \E suggestions \in SuggestionLists(dd.func_stats, dd.total_weight) :
              res' = [ kind          |-> "drilldown",
                       pattern       |-> dd.pattern,
                       max_depth     |-> dd.max_depth,
                       threshold     |-> dd.threshold,
                       func_stats    |-> dd.func_stats,
                       callee_map    |-> dd.callee_map,
                       root          |-> dd.root,
                       total_samples |-> dd.total_weight,
                       path          |-> dd.path,
                       bottleneck    |-> dd.bottleneck,
                       error         |-> IF root_has_samples THEN None
                                         ELSE Some(dd.pattern),
                       suggestions   |-> IF root_has_samples THEN None
                                         ELSE Some(suggestions) ]
    /\ pc' = "done"
    /\ UNCHANGED <<prof, dd, wk>>
    /\ UNCHANGED hostvars

\* find_callers(pattern, depth, limit)
FindCallers ==
    /\ pc = "idle"
    /\ WalksEnd(prof, None)
    /\ \E pattern \in Patterns, depth \in 0..MaxTreeDepth, limit \in 0..MaxLimit :
          LET caller_data == CallerData(prof)
              target == find_matching_function(prof, pattern)
          IN  \E callers \in build_caller_tree(caller_data, target, depth, limit, {}) :
                 res' = [ kind        |-> "callers",
                          pattern     |-> pattern,
                          depth       |-> depth,
                          limit       |-> limit,
                          caller_data |-> caller_data,
                          function    |-> target,
                          callers     |-> callers ]
    /\ pc' = "done"
    /\ UNCHANGED <<prof, dd, wk>>
    /\ UNCHANGED hostvars

\* find_callees(pattern, depth, limit)
FindCallees ==
    /\ pc = "idle"
    /\ WalksEnd(prof, None)
    /\ \E pattern \in Patterns, depth \in 0..MaxTreeDepth, limit \in 0..MaxLimit :
          LET callee_data == CalleeData(prof)
              target == find_matching_function(prof, pattern)
          IN  \E callees \in build_callee_tree(callee_data, target, depth, limit, {}) :
                 res' = [ kind        |-> "callees",
                          pattern     |-> pattern,
                          depth       |-> depth,
                          limit       |-> limit,
                          callee_data |-> callee_data,
                          function    |-> target,
                          callees     |-> callees ]
    /\ pc' = "done"
    /\ UNCHANGED <<prof, dd, wk>>
    /\ UNCHANGED hostvars

\* the response is handed back; the analyzer is ready for the next query
Return ==
    /\ pc = "done"
    /\ pc' = "idle"
    /\ res' = NoResult
    /\ dd' = NoDrilldown
    /\ wk' = NoWalk
    /\ UNCHANGED prof
    /\ UNCHANGED hostvars

Next ==
    \/ ComputeHotspots
    \/ FindMatchingFunction
    \/ DrilldownStart
    \/ DrilldownEscape
    \/ DrilldownVisit
    \/ DrilldownFinish
    \/ FindCallers
    \/ FindCallees
    \/ QueryHangs
    \/ Return

Spec == Init /\ [][Next]_vars

\* the stack walker on its own, one loop turn per step, on the stack tables
\* of the one-thread profiles
InitWalk ==
    /\ prof \in {p \in Profiles : Len(p.threads) = 1}
    /\ pc = "idle"
    /\ res = NoResult
    /\ dd = NoDrilldown
    /\ wk = NoWalk
    /\ raw = NoFile
    /\ disk = NoSessionFile
    /\ srv = NoServer
    /\ prev = NoResult

NextWalk ==
    \/ WalkStart
    \/ WalkStep
    \/ WalkReturn
    \/ Return

SpecWalk == InitWalk /\ [][NextWalk]_vars

\* ------------------------------------------------------------------------
\* What the properties speak about: the samples of the profile
\* ------------------------------------------------------------------------
\* the (thread, sample) positions of the threads a filter selects
SampleIds(p, thread_filter) ==
    {id \in UNION {{<<ti, si>> : si \in DOMAIN p.threads[ti].samples} :
                      ti \in DOMAIN p.threads} :
        Selected(p.threads[id[1]], thread_filter)}

SampleAt(p, id) == p.threads[id[1]].samples[id[2]]

\* the function names of a sample's stack, leaf first; empty without a stack
StackNames(p, id) ==
    LET s == SampleAt(p, id)
    IN  IF IsSome(s.stack)
        THEN LET w == NamedWalk(p, p.threads[id[1]], Unwrap(s.stack))
             IN  [i \in DOMAIN w |-> w[i][1]]
        ELSE <<>>

RECURSIVE WeightOf(_, _)
\* the sum of the weights of a set of samples
WeightOf(p, ids) ==
    IF ids = {} THEN 0
    ELSE LET id == CHOOSE x \in ids : TRUE
         IN  SampleAt(p, id).weight + WeightOf(p, ids \ {id})

RECURSIVE SumSelf(_, _)
\* the sum of self_samples over the functions S of func_stats
SumSelf(fs, S) ==
    IF S = {} THEN 0
    ELSE LET f == CHOOSE x \in S : TRUE
         IN  fs[f].self_samples + SumSelf(fs, S \ {f})

\* the state holds the outcome of an aggregation pass of compute_hotspots or
\* of drilldown
Aggregated == res.kind \in {"hotspots", "drilldown"}

AggFilter == IF res.kind = "hotspots" THEN res.thread_filter ELSE None

AggTotalWeight == IF res.kind = "hotspots" THEN res.total_weight ELSE res.total_samples

InRange(percent) == FracLe(Zero, percent) /\ FracLe(percent, Hundred)

\* ------------------------------------------------------------------------
\* Properties
\* ------------------------------------------------------------------------

\* C1: after the aggregation pass the sum of self_samples over all
\* functions equals total_weight, and total_weight is the sum of the weights
\* of all samples of the selected threads, with or without a stack
C1_WeightConservation ==
    Aggregated =>
        /\ SumSelf(res.func_stats, DOMAIN res.func_stats) = AggTotalWeight
        /\ AggTotalWeight = WeightOf(prof, SampleIds(prof, AggFilter))

\* C2: every aggregated function has total_samples >= self_samples, in
\* compute_hotspots and in drilldown, whatever the signs of the weights
C2_TotalAtLeastSelf ==
    Aggregated =>
        \A f \in DOMAIN res.func_stats :
            res.func_stats[f].total_samples >= res.func_stats[f].self_samples

\* C3: the drilldown path has at most max_depth nodes; when the response
\* carries a bottleneck, the last node is the bottleneck's function, has
\* self_percent above the threshold and is flagged, and no earlier node is
C3_DrilldownTermination ==
    res.kind = "drilldown" =>
        /\ Len(res.path) <= res.max_depth
        /\ IsSome(res.bottleneck) =>
              /\ res.path # <<>>
              /\ LET last == res.path[Len(res.path)]
                 IN  /\ last.function = Unwrap(res.bottleneck).function
                     /\ FracLt(<<res.threshold, 1>>, last.self_percent)
                     /\ last.is_bottleneck = Some(TRUE)
              /\ \A i \in 1..(Len(res.path) - 1) : res.path[i].is_bottleneck = None

\* a drilldown went down at least one level and ended at a bottleneck
C3_Witness ==
    /\ res.kind = "drilldown"
    /\ IsSome(res.bottleneck)
    /\ Len(res.path) >= 2

\* the names of the nodes of a path are pairwise different
DistinctNodes(path) ==
    \A i, j \in DOMAIN path : i # j => path[i].function # path[j].function

\* C4: also on a cyclic call graph the drilldown loop makes at most
\* max_depth turns, and no function occurs twice in the path
C4_CycleSafety ==
    /\ pc = "drill" =>
          /\ dd.depth <= dd.max_depth
          /\ Len(dd.path) <= dd.depth
          /\ DistinctNodes(dd.path)
    /\ res.kind = "drilldown" => DistinctNodes(res.path)

\* a drilldown met a function it had visited, took another callee of the
\* last node and pushed that one
C4_Witness ==
    /\ res.kind = "drilldown"
    /\ \E i \in 1..(Len(res.path) - 1) :
          /\ res.path[i].callees # <<>>
          /\ \E j \in 1..i : res.path[i].callees[1].name = res.path[j].function
          /\ res.path[i + 1].function # res.path[i].callees[1].name

\* C5: the stack walk ends and yields at most as many entries as the stack
\* table has rows, for every stack table and start index
C5_WalkBounded ==
    pc = "walk" => Len(wk.result) <= Len(prof.threads[wk.thread].stack_prefix)

\* the function names met by the walks of the samples a filter selects
SeenNames(p, thread_filter) ==
    UNION {Range(StackNames(p, id)) : id \in SampleIds(p, thread_filter)}

\* C6: compute_hotspots returns min(limit, number of names seen) entries,
\* in non-increasing order of self_samples, ranked 1, 2, ...; no function
\* left out has more self_samples than a listed one
C6_HotspotOrdering ==
    res.kind = "hotspots" =>
        LET h == res.hotspots
            listed == {h[i].name : i \in DOMAIN h}
        IN  /\ Len(h) = Min(res.limit,
                            Cardinality(SeenNames(prof, res.thread_filter)))
            /\ \A i \in DOMAIN h : h[i].rank = i
            /\ \A i, j \in DOMAIN h : i < j => h[i].self_samples >= h[j].self_samples
            /\ \A i \in DOMAIN h : h[i].self_samples = res.func_stats[h[i].name].self_samples
            /\ \A g \in DOMAIN res.func_stats \ listed :
                  \A i \in DOMAIN h : res.func_stats[g].self_samples <= h[i].self_samples

\* a hotspot list cut by the limit, with entries of different self_samples
C6_Witness ==
    /\ res.kind = "hotspots"
    /\ Len(res.hotspots) = 2
    /\ Cardinality(DOMAIN res.func_stats) > 2
    /\ res.hotspots[1].self_samples > res.hotspots[2].self_samples

\* C7: every self_percent and total_percent of a HotspotEntry or a
\* DrilldownNode lies in [0, 100]
C7_PercentInRange ==
    /\ res.kind = "hotspots" =>
          \A i \in DOMAIN res.hotspots :
              InRange(res.hotspots[i].self_percent) /\ InRange(res.hotspots[i].total_percent)
    /\ res.kind = "drilldown" =>
          \A i \in DOMAIN res.path :
              InRange(res.path[i].self_percent) /\ InRange(res.path[i].total_percent)

RECURSIVE CallerGroupsBounded(_)
\* the percents of a callers vector, and of every nested one, sum to <= 100
CallerGroupsBounded(callers) ==
    /\ FracLe(FracSum([i \in DOMAIN callers |-> callers[i].percent]), Hundred)
    /\ \A i \in DOMAIN callers : CallerGroupsBounded(callers[i].callers)

RECURSIVE CalleeGroupsBounded(_)
CalleeGroupsBounded(callees) ==
    /\ FracLe(FracSum([i \in DOMAIN callees |-> callees[i].percent]), Hundred)
    /\ \A i \in DOMAIN callees : CalleeGroupsBounded(callees[i].callees)

\* C8: the percents of every group of siblings returned by find_callers and
\* find_callees, and of every DrilldownNode's callees, sum to at most 100
C8_SiblingPercents ==
    /\ res.kind = "callers" => CallerGroupsBounded(res.callers)
    /\ res.kind = "callees" => CalleeGroupsBounded(res.callees)
    /\ res.kind = "drilldown" =>
          \A i \in DOMAIN res.path :
              FracLe(FracSum([k \in DOMAIN res.path[i].callees |->
                                 res.path[i].callees[k].percent]), Hundred)

\* the resolved names of all function tables
AllFuncNames(p) ==
    UNION {{get_string(p.threads[ti], p.threads[ti].func_name_idx[i], p.global_strings) :
               i \in DOMAIN p.threads[ti].func_name_idx} : ti \in DOMAIN p.threads}

\* C9: find_matching_function(p) is p when some thread has a function named
\* p; else a function name containing p when there is one; else p itself
C9_PatternFallback ==
    res.kind = "match" =>
        LET names == AllFuncNames(prof)
        IN  IF res.pattern \in names THEN res.name = res.pattern
            ELSE IF \E n \in names : Contains(n, res.pattern)
                 THEN res.name \in names /\ Contains(res.name, res.pattern)
                 ELSE res.name = res.pattern

\* the exact name is in the second thread only, and the first thread has a
\* different name that contains the pattern
C9_Witness ==
    /\ res.kind = "match"
    /\ Len(prof.threads) = 2
    /\ res.pattern \notin AllFuncNames(Profile(<<prof.threads[1]>>))
    /\ \E n \in AllFuncNames(Profile(<<prof.threads[1]>>)) : Contains(n, res.pattern)
    /\ res.pattern \in AllFuncNames(Profile(<<prof.threads[2]>>))
    /\ res.name = res.pattern

\* C10: self_samples[f] is the weight of the samples whose leaf is named f,
\* total_samples[f] the weight of the samples whose stack contains f, each
\* sample counted once however often f occurs in it
C10_WeightSemantics ==
    res.kind = "hotspots" =>
        LET ids == SampleIds(prof, res.thread_filter)
            leafIs(f) == {id \in ids : StackNames(prof, id) # <<>>
                                       /\ StackNames(prof, id)[1] = f}
            has(f) == {id \in ids : f \in Range(StackNames(prof, id))}
        IN  /\ DOMAIN res.func_stats = SeenNames(prof, res.thread_filter)
            /\ \A f \in DOMAIN res.func_stats :
                  /\ res.func_stats[f].self_samples = WeightOf(prof, leafIs(f))
                  /\ res.func_stats[f].total_samples = WeightOf(prof, has(f))

\* hotspots of a profile with a sample in whose stack a function occurs twice
C10_Witness ==
    /\ res.kind = "hotspots"
    /\ \E id \in SampleIds(prof, res.thread_filter) :
          LET n == StackNames(prof, id)
          IN  \E i, j \in DOMAIN n : i < j /\ n[i] = n[j]

\* ------------------------------------------------------------------------
\* Decoding: from_file and from_raw_profile
\* ------------------------------------------------------------------------
MaxRows == 2

\* the sequences over S of length at most n
SeqsUpTo(S, n) == UNION {[1..k -> S] : k \in 0..n}

\* samples: { stack, weight, length }, each #[serde(default)]
RawSamples ==
    [stack : SeqsUpTo({None, Some(0)}, MaxRows),
     weight : SeqsUpTo({1, 2}, MaxRows),
     length : 0..MaxRows]

\* stackTable: { prefix, frame, length }
RawStackTables ==
    { [prefix |-> <<None>>, frame |-> <<0>>, length |-> 1],
      [prefix |-> <<None>>, frame |-> <<>>, length |-> 1],
      [prefix |-> <<None>>, frame |-> <<0>>, length |-> 2] }

\* the file at the path: absent, not JSON, a JSON document without the
\* required samples table of its thread, or a document serde accepts
RawFiles ==
    { [kind |-> "absent"], [kind |-> "not_json"], [kind |-> "no_samples"] }
    \cup [kind : {"json"}, samples : RawSamples, stack_table : RawStackTables]

\* stack.into_iter().zip(weight.into_iter()).collect()
Zip(stack, weight) ==
    [i \in 1..Min(Len(stack), Len(weight)) |-> Sample(stack[i], weight[i])]

\* the ThreadData built from a RawThread; the length fields are not read
DecodedThread(t) ==
    ThreadData(<<"m">>, <<>>, <<2, 1>>,
               StackTable(t.stack_table.prefix, t.stack_table.frame),
               Zip(t.samples.stack, t.samples.weight))

InitDecode ==
    /\ raw \in RawFiles
    /\ pc = "file"
    /\ prof = Profile(<<>>)
    /\ res = NoResult
    /\ dd = NoDrilldown
    /\ wk = NoWalk
    /\ disk = NoSessionFile
    /\ srv = NoServer
    /\ prev = NoResult

\* from_file: File::open(path)? fails, or serde_json::from_reader(reader)?
\* does
FromFileFails ==
    /\ pc = "file"
    /\ raw.kind # "json"
    /\ res' = [kind |-> "decode", ok |-> FALSE,
               error |-> IF raw.kind = "absent" THEN "IoError" ELSE "JsonError"]
    /\ pc' = "done"
    /\ UNCHANGED <<prof, dd, wk, hostvars>>

\* from_file: the document is deserialized into a RawProfile
FromFileParses ==
    /\ pc = "file"
    /\ raw.kind = "json"
    /\ pc' = "parsed"
    /\ UNCHANGED <<prof, res, dd, wk, hostvars>>

\* from_raw_profile: always Ok(Self { .. })
FromRawProfile ==
    /\ pc = "parsed"
    /\ prof' = Profile(<<DecodedThread(raw)>>)
    /\ res' = [kind |-> "decode", ok |-> TRUE, error |-> "none"]
    /\ pc' = "done"
    /\ UNCHANGED <<dd, wk, hostvars>>

NextDecode ==
    \/ FromFileFails
    \/ FromFileParses
    \/ FromRawProfile

SpecDecode == InitDecode /\ [][NextDecode]_vars

\* a table of the document whose declared length or columns disagree
LengthMismatch(f) ==
    \/ Len(f.samples.stack) # Len(f.samples.weight)
    \/ Len(f.samples.stack) # f.samples.length
    \/ Len(f.stack_table.prefix) # Len(f.stack_table.frame)
    \/ Len(f.stack_table.prefix) # f.stack_table.length

\* C11: decoding a document in which a table's length field disagrees with
\* a column, or two columns of a table differ in length, fails with
\* InvalidProfile and yields no analyzer; no row is dropped
C11_LengthValidated ==
    (res.kind = "decode" /\ raw.kind = "json" /\ LengthMismatch(raw)) =>
        /\ ~res.ok
        /\ res.error = "InvalidProfile"

\* ------------------------------------------------------------------------
\* get_summary and the symbolication heuristic
\* ------------------------------------------------------------------------
MaxFuncs == 5

\* the limit of the hotspots query of is_likely_unsymbolicated
SummaryLimit == 20

\* char::is_ascii_hexdigit
AsciiHexDigits ==
    {"0", "1", "2", "3", "4", "5", "6", "7", "8", "9",
     "a", "b", "c", "d", "e", "f", "A", "B", "C", "D", "E", "F"}

looks_like_hex_address(name) ==
    IF ~(Len(name) >= 2 /\ name[1] = "0" /\ name[2] = "x") THEN FALSE
    ELSE LET hex_part == SubSeq(name, 3, Len(name))
         IN  hex_part # <<>> /\ \A i \in DOMAIN hex_part : hex_part[i] \in AsciiHexDigits

\* the heuristic with the threshold included: ratio >= 0.8
is_likely_unsymbolicated_AtLeast(hotspots) ==
    IF hotspots = <<>> THEN FALSE
    ELSE LET hex_pattern_count ==
                 Cardinality({i \in DOMAIN hotspots : looks_like_hex_address(hotspots[i].name)})
         IN  hex_pattern_count * 10 >= 8 * Len(hotspots)

\* ratio = hex_pattern_count / hotspots.len(); ratio > 0.8, as the exact
\* comparison of hex_pattern_count / len with 8/10
is_likely_unsymbolicated(hotspots) ==
    IF hotspots = <<>> THEN FALSE
    ELSE LET hex_pattern_count ==
                 Cardinality({i \in DOMAIN hotspots : looks_like_hex_address(hotspots[i].name)})
         IN  hex_pattern_count * 10 > 8 * Len(hotspots)

\* function names: lowercase hex addresses, an uppercase one, a bare "0x",
\* a symbol, and "0x" followed by a letter that is no hex digit
NamePool ==
    << <<"0", "x", "1">>, <<"0", "x", "2">>, <<"0", "x", "a">>, <<"0", "x", "f">>,
       <<"0", "x", "1", "e">>, <<"0", "x", "A">>, <<"0", "x">>, <<"m">>,
       <<"0", "x", "g">> >>

RECURSIVE Ascending(_)
\* the numbers of a set in ascending order
Ascending(S) ==
    IF S = {} THEN <<>>
    ELSE LET m == CHOOSE x \in S : \A y \in S : x <= y
         IN  <<m>> \o Ascending(S \ {m})

\* a one-thread profile whose functions are the names of the pool picked
\* by S: function i has one root stack and one sample of weight i
SummaryProfile(S) ==
    LET ids == Ascending(S)
        n == Len(ids)
        rows == [i \in 1..n |-> i - 1]
    IN  [ global_strings |-> <<>>,
          threads |-> << [ name          |-> <<"m">>,
                           samples       |-> [i \in 1..n |-> Sample(Some(i - 1), i)],
                           stack_prefix  |-> [i \in 1..n |-> None],
                           stack_frame   |-> rows,
                           frame_func    |-> rows,
                           func_name_idx |-> rows,
                           string_table  |-> [i \in 1..n |-> NamePool[ids[i]]] ] >> ]

InitSummary ==
    /\ prof \in {SummaryProfile(S) : S \in {T \in SUBSET DOMAIN NamePool :
                                                Cardinality(T) <= MaxFuncs}}
    /\ pc = "idle"
    /\ res = NoResult
    /\ dd = NoDrilldown
    /\ wk = NoWalk
    /\ raw = NoFile
    /\ disk = NoSessionFile
    /\ srv = NoServer
    /\ prev = NoResult

\* get_summary()
GetSummary ==
    /\ pc = "idle"
    /\ LET agg == HotspotsAggregate(prof, None)
       IN  \E order \in SortedBySelf(agg.func_stats) :
              LET hotspots == HotspotList(order, agg.func_stats, agg.total_weight,
                                          SummaryLimit)
              IN  res' = [ kind            |-> "summary",
                           thread_count    |-> Len(prof.threads),
                           total_samples   |-> SumSeq([ti \in DOMAIN prof.threads |->
                               SumSeq([si \in DOMAIN prof.threads[ti].samples |->
                                          prof.threads[ti].samples[si].weight])]),
                           hotspots        |-> hotspots,
                           is_symbolicated |-> ~is_likely_unsymbolicated(hotspots) ]
    /\ pc' = "done"
    /\ UNCHANGED <<prof, dd, wk, hostvars>>

NextSummary ==
    \/ GetSummary
    \/ Return

SpecSummary == InitSummary /\ [][NextSummary]_vars

\* the name is "0x" followed by one or more of the given digits
HexNamed(name, digits) ==
    /\ Len(name) >= 3
    /\ name[1] = "0"
    /\ name[2] = "x"
    /\ \A i \in 3..Len(name) : name[i] \in digits

\* more than 80% of the entries have a name that is "0x" and such digits
MostlyHex(hotspots, digits) ==
    /\ hotspots # <<>>
    /\ 5 * Cardinality({i \in DOMAIN hotspots : HexNamed(hotspots[i].name, digits)})
           > 4 * Len(hotspots)

LowerHexDigits ==
    {"0", "1", "2", "3", "4", "5", "6", "7", "8", "9", "a", "b", "c", "d", "e", "f"}

\* C12 as stated: is_symbolicated is false exactly when the hotspots are
\* not empty and more than 80% of their names match 0x[0-9a-f]+
C12_LowercaseHex ==
    res.kind = "summary" =>
        (res.is_symbolicated <=> ~MostlyHex(res.hotspots, LowerHexDigits))

\* C12 amended: is_symbolicated is false exactly when the hotspots are not
\* empty and more than 80% of their names are "0x" followed by one or more
\* hex digits of either case (0x[0-9a-fA-F]+)
C12_SymbolicationHeuristic ==
    res.kind = "summary" =>
        (res.is_symbolicated <=>
            ~MostlyHex(res.hotspots, LowerHexDigits \cup {"A", "B", "C", "D", "E", "F"}))

\* a summary of five hotspots of which exactly four are hex addresses
C12_Witness ==
    /\ res.kind = "summary"
    /\ Len(res.hotspots) = 5
    /\ Cardinality({i \in DOMAIN res.hotspots :
                       looks_like_hex_address(res.hotspots[i].name)}) = 4
    /\ res.is_symbolicated

\* ------------------------------------------------------------------------
\* The session file: Session::save, Session::load, Session::remove
\* ------------------------------------------------------------------------
MaxStrLen == 2

\* characters that JSON writes in a particular way: the double quote, the
\* backslash, the line feed and the space
DQ == "dq"

BS == "bs"

NL == "nl"

SP == "sp"

\* the strings of the fields: over a letter, a slash and the characters
\* JSON escapes
SessionStrings == SeqsUpTo({"a", "/", DQ, BS, NL}, MaxStrLen)

\* struct Session { server_url, profile_path, pid, started_at }
Sessions ==
    [server_url : SessionStrings,
     profile_path : {<<"/", "a">>, <<BS, "a">>},
     pid : {0, 10, 907, 65535},
     started_at : {<<"a">>, <<>>}]

\* serde_json's writer for one character of a string
EscapeChar(c) ==
    IF c = DQ THEN <<BS, DQ>>
    ELSE IF c = BS THEN <<BS, BS>>
    ELSE IF c = NL THEN <<BS, "n">>
    ELSE <<c>>

RECURSIVE Escaped(_)
Escaped(str) == IF str = <<>> THEN <<>> ELSE EscapeChar(Head(str)) \o Escaped(Tail(str))

\* a string written between quotes with nothing escaped
JsonString_Unescaped(str) == <<DQ>> \o str \o <<DQ>>

\* a JSON string literal
JsonString(str) == <<DQ>> \o Escaped(str) \o <<DQ>>

RECURSIVE Decimal(_)
\* an unsigned integer in decimal, digit by digit
Decimal(n) ==
    IF n < 10 THEN <<ToString(n)>> ELSE Decimal(n \div 10) \o <<ToString(n % 10)>>

\* one line of the pretty printer: indentation, key, colon, value
JsonField(key, value) == <<NL, SP, SP>> \o JsonString(<<key>>) \o <<":", SP>> \o value

\* serde_json::to_string_pretty(self): the fields in declaration order
to_string_pretty(session) ==
    <<"{">>
    \o JsonField("server_url", JsonString(session.server_url)) \o <<",">>
    \o JsonField("profile_path", JsonString(session.profile_path)) \o <<",">>
    \o JsonField("pid", Decimal(session.pid)) \o <<",">>
    \o JsonField("started_at", JsonString(session.started_at))
    \o <<NL, "}">>

\* the outcome of a parsing step: a value and the position after it, or a
\* failure
Parsed(value, next) == [ok |-> TRUE, value |-> value, next |-> next]

ParseFailed == [ok |-> FALSE, value |-> <<>>, next |-> 0]

RECURSIVE SkipWhitespace(_, _)
SkipWhitespace(c, i) ==
    IF i <= Len(c) /\ c[i] \in {SP, NL} THEN SkipWhitespace(c, i + 1) ELSE i

RECURSIVE ParseStringBody(_, _, _)
\* the characters of a string literal from position i, up to the closing
\* quote; a raw control character or an unknown escape is an error
ParseStringBody(c, i, acc) ==
    IF i > Len(c) THEN ParseFailed
    ELSE IF c[i] = DQ THEN Parsed(acc, i + 1)
    ELSE IF c[i] = NL THEN ParseFailed
    ELSE IF c[i] = BS
         THEN IF i + 1 > Len(c) THEN ParseFailed
              ELSE IF c[i + 1] \in {DQ, BS, "/"}
                   THEN ParseStringBody(c, i + 2, Append(acc, c[i + 1]))
              ELSE IF c[i + 1] = "n" THEN ParseStringBody(c, i + 2, Append(acc, NL))
              ELSE ParseFailed
    ELSE ParseStringBody(c, i + 1, Append(acc, c[i]))

ParseString(c, i) ==
    IF i <= Len(c) /\ c[i] = DQ THEN ParseStringBody(c, i + 1, <<>>) ELSE ParseFailed

DigitValue(d) ==
    CASE d = "0" -> 0 [] d = "1" -> 1 [] d = "2" -> 2 [] d = "3" -> 3 [] d = "4" -> 4
      [] d = "5" -> 5 [] d = "6" -> 6 [] d = "7" -> 7 [] d = "8" -> 8 [] d = "9" -> 9

DecimalDigits == {"0", "1", "2", "3", "4", "5", "6", "7", "8", "9"}

RECURSIVE ParseDigits(_, _, _)
ParseDigits(c, i, acc) ==
    IF i <= Len(c) /\ c[i] \in DecimalDigits
    THEN ParseDigits(c, i + 1, acc * 10 + DigitValue(c[i]))
    ELSE Parsed(acc, i)

\* a u32: one or more digits, no leading zero (the pids of the model are
\* far below u32::MAX, so the range test of the parser never fails)
ParseU32(c, i) ==
    IF ~(i <= Len(c) /\ c[i] \in DecimalDigits) THEN ParseFailed
    ELSE IF c[i] = "0" /\ i + 1 <= Len(c) /\ c[i + 1] \in DecimalDigits THEN ParseFailed
    ELSE ParseDigits(c, i, 0)

SessionKeys == {"server_url", "profile_path", "pid", "started_at"}

RECURSIVE ParseFields(_, _, _)
\* the members of the object from position i: "key": value, separated by
\* commas, up to the closing brace; a key given twice or a key missing at
\* the end is an error
ParseFields(c, i, fields) ==
    LET k == ParseString(c, SkipWhitespace(c, i))
    IN  IF ~k.ok \/ Len(k.value) # 1 \/ k.value[1] \in DOMAIN fields
             \/ k.value[1] \notin SessionKeys
        THEN ParseFailed
        ELSE LET key == k.value[1]
                 colon == SkipWhitespace(c, k.next)
             IN  IF ~(colon <= Len(c) /\ c[colon] = ":") THEN ParseFailed
                 ELSE LET at == SkipWhitespace(c, colon + 1)
                          v == IF key = "pid" THEN ParseU32(c, at) ELSE ParseString(c, at)
                      IN  IF ~v.ok THEN ParseFailed
                          ELSE LET fields2 == [x \in DOMAIN fields \cup {key} |->
                                                  IF x = key THEN v.value ELSE fields[x]]
                                   sep == SkipWhitespace(c, v.next)
                               IN  IF sep > Len(c) THEN ParseFailed
                                   ELSE IF c[sep] = "," THEN ParseFields(c, sep + 1, fields2)
                                   ELSE IF c[sep] = "}" /\ DOMAIN fields2 = SessionKeys
                                             /\ SkipWhitespace(c, sep + 1) > Len(c)
                                        THEN Parsed(fields2, sep + 1)
                                   ELSE ParseFailed

\* serde_json::from_str::<Session>(&content)
from_str(c) ==
    LET open == SkipWhitespace(c, 1)
    IN  IF ~(open <= Len(c) /\ c[open] = "{") THEN ParseFailed
        ELSE ParseFields(c, open + 1, <<>>)

InitSession ==
    /\ disk = NoSessionFile
    /\ pc = "idle"
    /\ prof = Profile(<<>>)
    /\ res = NoResult
    /\ dd = NoDrilldown
    /\ wk = NoWalk
    /\ raw = NoFile
    /\ srv = NoServer
    /\ prev = NoResult

\* sess.save(): fs::write(&path, json), or an earlier step fails with an
\* io::Error and the file is left as it was
SessionSave ==
    /\ pc = "idle"
    /\ \E session \in Sessions, written \in BOOLEAN :
          /\ disk' = IF written THEN Some(to_string_pretty(session)) ELSE disk
          /\ res' = [kind |-> "save", ok |-> written, session |-> session]
    /\ pc' = "saved"
    /\ UNCHANGED <<prof, dd, wk, raw, srv, prev>>

\* Session::load(): read_to_string, then serde_json::from_str
SessionLoad ==
    /\ pc \in {"idle", "saved"}
    /\ res' = IF disk = NoSessionFile
              THEN [kind |-> "load", ok |-> FALSE, session |-> <<>>]
              ELSE LET parsed == from_str(Unwrap(disk))
                   IN  [kind |-> "load", ok |-> parsed.ok, session |-> parsed.value]
    /\ prev' = res
    /\ pc' = "loaded"
    /\ UNCHANGED <<prof, dd, wk, raw, disk, srv>>

\* Session::remove()
SessionRemove ==
    /\ pc \in {"saved", "loaded"}
    /\ disk' = NoSessionFile
    /\ res' = NoResult
    /\ prev' = NoResult
    /\ pc' = "idle"
    /\ UNCHANGED <<prof, dd, wk, raw, srv>>

NextSession ==
    \/ SessionSave
    \/ SessionLoad
    \/ SessionRemove

SpecSession == InitSession /\ [][NextSession]_vars

\* C13: a session that was saved and is then loaded comes back with the
\* same server_url, profile_path, pid and started_at
C13_SessionRoundTrip ==
    (res.kind = "load" /\ prev.kind = "save" /\ prev.ok) =>
        /\ res.ok
        /\ res.session.server_url = prev.session.server_url
        /\ res.session.profile_path = prev.session.profile_path
        /\ res.session.pid = prev.session.pid
        /\ res.session.started_at = prev.session.started_at

\* a session whose server_url holds a quote and a backslash was saved and
\* loaded
C13_Witness ==
    /\ res.kind = "load"
    /\ prev.kind = "save"
    /\ prev.ok
    /\ prev.session.server_url = <<DQ, BS>>
    /\ prev.session.pid = 907
    /\ res.ok

\* ------------------------------------------------------------------------
\* `samply analyze serve`: do_analyze_serve and start_analysis_server
\* ------------------------------------------------------------------------
\* std::process::id() of the serve command, and the pid in a session file
\* left by an earlier one
OwnPid == 907

OtherPid == 10

\* Session::new(server_info.token_url, profile_path)
OwnSession ==
    [server_url |-> <<"/", "a">>, profile_path |-> <<"/", "a">>, pid |-> OwnPid,
     started_at |-> <<"a">>]

\* what is at the session path when the command starts: nothing, the file
\* of an earlier server, or a file that is not a session
InitialSessionFiles ==
    { NoSessionFile,
      Some(to_string_pretty([OwnSession EXCEPT !.pid = OtherPid])),
      Some(<<"{", "}">>) }

\* the serve command: where it is, its exit code, what start_analysis_server
\* has done, the accept loop task, and whether sess.save() wrote the file
ServeAt(state) ==
    [state |-> state, code |-> -1, decoded |-> FALSE, bound |-> FALSE,
     loop |-> "none", saved |-> FALSE]

InitServe ==
    /\ raw \in RawFiles
    /\ disk \in InitialSessionFiles
    /\ srv = ServeAt("start")
    /\ pc = "idle"
    /\ prof = Profile(<<>>)
    /\ res = NoResult
    /\ dd = NoDrilldown
    /\ wk = NoWalk
    /\ prev = NoResult

\* std::process::exit(1)
Exit1(server) == [server EXCEPT !.state = "exited", !.code = 1]

\* if !profile_path.exists() { exit(1) }
ServeCheckFile ==
    /\ srv.state = "start"
    /\ srv' = IF raw.kind = "absent" THEN Exit1(srv) ELSE ServeAt("checked")
    /\ UNCHANGED <<prof, pc, res, dd, wk, raw, disk, prev>>

\* if Session::exists(): a loadable session of a live server ends the
\* command, one of a dead server is removed, an unreadable file is left
ServeCheckSession ==
    /\ srv.state = "checked"
    /\ IF disk = NoSessionFile \/ ~from_str(Unwrap(disk)).ok
       THEN srv' = ServeAt("ready") /\ disk' = disk
       ELSE \E is_server_alive \in BOOLEAN :
               IF is_server_alive
               THEN srv' = Exit1(srv) /\ disk' = disk
               ELSE srv' = ServeAt("ready") /\ disk' = NoSessionFile
    /\ UNCHANGED <<prof, pc, res, dd, wk, raw, prev>>

\* start_analysis_server: ProfileAnalyzer::from_file(profile_path)?; on Err
\* the command prints the error and exits
ServeDecode ==
    /\ srv.state = "ready"
    /\ IF raw.kind = "json"
       THEN /\ prof' = Profile(<<DecodedThread(raw)>>)
            /\ srv' = [srv EXCEPT !.state = "decoded", !.decoded = TRUE]
       ELSE /\ prof' = prof
            /\ srv' = Exit1(srv)
    /\ UNCHANGED <<pc, res, dd, wk, raw, disk, prev>>

\* make_listener: TcpListener::bind, or exit(1) when no port can be bound
ServeBind ==
    /\ srv.state = "decoded"
    /\ \E ok \in BOOLEAN :
          srv' = IF ok THEN [srv EXCEPT !.state = "bound", !.bound = TRUE] ELSE Exit1(srv)
    /\ UNCHANGED <<prof, pc, res, dd, wk, raw, disk, prev>>

\* tokio::task::spawn(run_server(..)); Ok(RunningServerInfo { .. })
ServeSpawn ==
    /\ srv.state = "bound"
    /\ srv' = [srv EXCEPT !.state = "spawned", !.loop = "accepting"]
    /\ UNCHANGED <<prof, pc, res, dd, wk, raw, disk, prev>>

\* the session file is written in the check of an existing session, before
\* the server is started
ServeSaveSession_BeforeStart ==
    /\ srv.state = "checked"
    /\ disk' = Some(to_string_pretty(OwnSession))
    /\ srv' = [ServeAt("ready") EXCEPT !.saved = TRUE]
    /\ UNCHANGED <<prof, pc, res, dd, wk, raw, prev>>

\* sess.save(); a failure is a warning only
ServeSaveSession ==
    /\ srv.state = "spawned"
    /\ \E written \in BOOLEAN :
          /\ disk' = IF written THEN Some(to_string_pretty(OwnSession)) ELSE disk
          /\ srv' = [srv EXCEPT !.state = "serving", !.saved = written]
    /\ UNCHANGED <<prof, pc, res, dd, wk, raw, prev>>

\* run_server returns: the stop signal fired or accept failed.  The task
\* runs beside the command, so this can happen before the session is saved
AcceptLoopEnds ==
    /\ srv.loop = "accepting"
    /\ srv.state \in {"spawned", "serving"}
    /\ srv' = [srv EXCEPT !.loop = "ended"]
    /\ UNCHANGED <<prof, pc, res, dd, wk, raw, disk, prev>>

\* server_info.server_join_handle.await
ServeJoin ==
    /\ srv.state = "serving"
    /\ srv.loop = "ended"
    /\ srv' = [srv EXCEPT !.state = "joined"]
    /\ UNCHANGED <<prof, pc, res, dd, wk, raw, disk, prev>>

\* let _ = Session::remove()
ServeRemoveSession ==
    /\ srv.state = "joined"
    /\ disk' = NoSessionFile
    /\ srv' = [srv EXCEPT !.state = "removed"]
    /\ UNCHANGED <<prof, pc, res, dd, wk, raw, prev>>

\* block_on returns and main ends
ServeExit ==
    /\ srv.state = "removed"
    /\ srv' = [srv EXCEPT !.state = "exited", !.code = 0]
    /\ UNCHANGED <<prof, pc, res, dd, wk, raw, disk, prev>>

NextServe ==
    \/ ServeCheckFile
    \/ ServeCheckSession
    \/ ServeDecode
    \/ ServeBind
    \/ ServeSpawn
    \/ ServeSaveSession
    \/ AcceptLoopEnds
    \/ ServeJoin
    \/ ServeRemoveSession
    \/ ServeExit

SpecServe == InitServe /\ [][NextServe]_vars

\* a step writes the session file
WritesSession == disk' # disk /\ disk' # NoSessionFile

\* a step removes the session file this command wrote
RemovesOwnSession == srv.saved /\ disk # NoSessionFile /\ disk' = NoSessionFile

PathPrefix == <<"/", "t">>

\* str::starts_with
starts_with(str, prefix) ==
    Len(str) >= Len(prefix) /\ SubSeq(str, 1, Len(prefix)) = prefix

\* str::strip_prefix
strip_prefix(str, prefix) ==
    IF starts_with(str, prefix) THEN Some(SubSeq(str, Len(prefix) + 1, Len(str))) ELSE None

\* "/query/<endpoint>"
QueryPath(endpoint) == <<"/", "query", "/", endpoint>>

QueryEndpoints == {"hotspots", "callers", "callees", "summary", "asm", "drilldown", "nope"}

\* request paths: without the prefix, with a wrong one, the prefix alone,
\* the prefix run together with more text, and the routes below the prefix
RequestPaths ==
    { <<"/">>, <<"/", "x">>, <<"/", "profile.json">>, QueryPath("hotspots"),
      PathPrefix, PathPrefix \o <<"x">>, PathPrefix \o <<"/">>,
      PathPrefix \o <<"/", "query">>, PathPrefix \o <<"/", "query", "/">>,
      PathPrefix \o <<"/", "profile.json">>, PathPrefix \o <<"/", "symbolicate", "/", "v5">> }
    \cup {PathPrefix \o QueryPath(e) : e \in QueryEndpoints}

\* the query string as url::form_urlencoded::parse collects it: each
\* parameter absent or present with a value
QueryParams ==
    [function : {None, Some(<<>>), Some(A), Some(<<"c">>)},
     limit : {None, Some(<<"x">>), Some(<<"2">>)},
     depth : {None, Some(<<"x">>), Some(<<"3">>)},
     threshold : {None, Some(<<"x">>)},
     thread : {None, Some(<<"m">>)}]

NoParams ==
    [function |-> None, limit |-> None, depth |-> None, threshold |-> None, thread |-> None]

Request(method, path, params, preflight) ==
    [method |-> method, path |-> path, params |-> params, preflight |-> preflight]

\* preflight: the request carries Access-Control-Request-Method
Requests ==
    {Request("GET", path, params, FALSE) : path \in RequestPaths, params \in QueryParams}
    \cup {Request("POST", path, NoParams, FALSE) : path \in RequestPaths}
    \cup {Request("OPTIONS", path, NoParams, preflight) :
              path \in RequestPaths, preflight \in BOOLEAN}

\* s.parse::<usize>().ok(): an optional plus sign, then one or more digits
parse_usize(str) ==
    LET digits == IF str # <<>> /\ str[1] = "+" THEN Tail(str) ELSE str
    IN  IF digits # <<>> /\ \A i \in DOMAIN digits : digits[i] \in DecimalDigits
        THEN Some(ParseDigits(digits, 1, 0).value)
        ELSE None

\* params.get(key).and_then(|s| s.parse().ok()).unwrap_or(default)
ParamOr(param, default) ==
    IF IsSome(param) /\ IsSome(parse_usize(Unwrap(param)))
    THEN Unwrap(parse_usize(Unwrap(param)))
    ELSE default

\* the defaults of the query parameters
DefaultLimit == 20

DefaultTreeDepth == 5

DefaultDrilldownDepth == 10

DefaultThreshold == 5

\* serde_json::json!({"success": false, "error": ..})
ErrorEnvelope(error) == [success |-> FALSE, error |-> error]

\* serde_json::json!({"success": true, "query": .., "data": ..}); data is
\* the call to the analyzer that produced it
DataEnvelope(query, call) == [success |-> TRUE, query |-> query, data |-> call]

MissingFunction == ErrorEnvelope("Missing 'function' parameter")

\* params.get("function").map(|s| s.as_str()).unwrap_or("")
FunctionParam(params) == IF IsSome(params.function) THEN Unwrap(params.function) ELSE <<>>

\* a test that lets the empty function name through
FunctionMissing_Never(function) == FALSE

\* function.is_empty()
FunctionMissing(function) == function = <<>>

\* an unknown endpoint answered with an empty body
UnknownEndpoint_EmptyBody(path) == <<>>

\* the last arm of the match: "Unknown query endpoint: {path}"
UnknownEndpoint(path) == ErrorEnvelope(<<"Unknown query endpoint: ">> \o path)

\* handle_query_request(path, params, analyzer): the JSON it returns
handle_query_request(path, params, analyzer) ==
    IF ~analyzer THEN ErrorEnvelope("Analysis not available")
    ELSE LET function == FunctionParam(params)
         IN  CASE path = QueryPath("hotspots") ->
                    DataEnvelope("hotspots",
                        [method |-> "compute_hotspots",
                         limit |-> ParamOr(params.limit, DefaultLimit),
                         thread |-> params.thread])
               [] path = QueryPath("callers") ->
                    IF FunctionMissing(function) THEN MissingFunction
                    ELSE DataEnvelope("callers",
                             [method |-> "find_callers", function |-> function,
                              depth |-> ParamOr(params.depth, DefaultTreeDepth),
                              limit |-> ParamOr(params.limit, DefaultLimit)])
               [] path = QueryPath("callees") ->
                    IF FunctionMissing(function) THEN MissingFunction
                    ELSE DataEnvelope("callees",
                             [method |-> "find_callees", function |-> function,
                              depth |-> ParamOr(params.depth, DefaultTreeDepth),
                              limit |-> ParamOr(params.limit, DefaultLimit)])
               [] path = QueryPath("summary") ->
                    DataEnvelope("summary", [method |-> "get_summary"])
               [] path = QueryPath("asm") ->
                    IF FunctionMissing(function) THEN MissingFunction
                    ELSE DataEnvelope("asm", [method |-> "get_asm", function |-> function])
               [] path = QueryPath("drilldown") ->
                    IF FunctionMissing(function) THEN MissingFunction
                    ELSE DataEnvelope("drilldown",
                             [method |-> "drilldown", function |-> function,
                              depth |-> ParamOr(params.depth, DefaultDrilldownDepth),
                              threshold |-> ParamOr(params.threshold, DefaultThreshold)])
               [] OTHER -> UnknownEndpoint(path)

\* Response::new(..): status 200, no headers, an empty body
Response(status, headers, body) == [status |-> status, headers |-> headers, body |-> body]

EmptyBody == [kind |-> "empty"]

\* a strip_prefix that lets every path through
PathBelowPrefix_Any(path, path_prefix) == Some(path)

\* path.strip_prefix(&path_prefix)
PathBelowPrefix(path, path_prefix) == strip_prefix(path, path_prefix)

\* symbolication_service for the requests it answers without awaiting the
\* request body: server is [analyzer, has_profile]
symbolication_service(req, server, path_prefix) ==
    LET stripped == PathBelowPrefix(req.path, path_prefix)
    IN  IF ~IsSome(stripped)
        THEN IF req.method = "GET" /\ req.path = <<"/">>
             THEN Response(200, {"content-type"},
                           [kind |-> "landing", with_profile |-> server.has_profile])
             ELSE Response(404, {}, EmptyBody)
        ELSE LET path == Unwrap(stripped)
                 cors == {"access-control-allow-origin"}
             IN  IF req.method = "OPTIONS"
                 THEN Response(204,
                               cors \cup (IF req.preflight
                                          THEN {"access-control-allow-methods",
                                                "access-control-max-age"}
                                          ELSE {"allow"}),
                               EmptyBody)
                 ELSE IF req.method = "GET" /\ path = <<"/", "profile.json">>
                         /\ server.has_profile
                 THEN Response(200, cors \cup {"content-type"}, [kind |-> "profile"])
                 ELSE IF req.method = "POST"
                 THEN Response(200, cors \cup {"content-type"},
                               [kind |-> "symbols", path |-> path])
                 ELSE IF req.method = "GET" /\ starts_with(path, <<"/", "query", "/">>)
                 THEN Response(200, cors \cup {"content-type"},
                               [kind |-> "json",
                                json |-> handle_query_request(path, req.params,
                                                              server.analyzer)])
                 ELSE Response(404, cors, EmptyBody)

\* the servers: start_server without and with a profile file (no
\* analyzer), and start_analysis_server
Servers ==
    { [state |-> "accepting", analyzer |-> FALSE, has_profile |-> FALSE],
      [state |-> "accepting", analyzer |-> FALSE, has_profile |-> TRUE],
      [state |-> "accepting", analyzer |-> TRUE, has_profile |-> TRUE] }

InitHttp ==
    /\ srv \in Servers
    /\ pc = "idle"
    /\ raw = NoFile
    /\ res = NoResult
    /\ prof = Profile(<<>>)
    /\ dd = NoDrilldown
    /\ wk = NoWalk
    /\ disk = NoSessionFile
    /\ prev = NoResult

\* listener.accept() returns a connection, a task is spawned for it and
\* hyper reads a request from it
Accept ==
    /\ srv.state = "accepting"
    /\ pc = "idle"
    /\ \E req \in Requests : raw' = [kind |-> "request", req |-> req]
    /\ pc' = "request"
    /\ UNCHANGED <<prof, res, dd, wk, disk, srv, prev>>

\* the service function returns Ok(response)
Service ==
    /\ pc = "request"
    /\ LET req == raw.req
       IN  /\ ~(req.method = "POST" /\ IsSome(PathBelowPrefix(req.path, PathPrefix)))
           /\ res' = [kind |-> "response",
                      response |-> symbolication_service(req, srv, PathPrefix)]
    /\ pc' = "responded"
    /\ UNCHANGED <<prof, dd, wk, raw, disk, srv, prev>>

\* a POST below the prefix: the body is collected and handed to the symbol
\* manager, or collecting it fails and the service returns Err (then hyper
\* ends the connection without a response)
ServicePost ==
    /\ pc = "request"
    /\ LET req == raw.req
       IN  /\ req.method = "POST"
           /\ IsSome(PathBelowPrefix(req.path, PathPrefix))
           /\ \E collected \in BOOLEAN :
                 IF collected
                 THEN /\ res' = [kind |-> "response",
                                 response |-> symbolication_service(req, srv, PathPrefix)]
                      /\ pc' = "responded"
                 ELSE /\ res' = [kind |-> "connection_error"]
                      /\ pc' = "responded"
    /\ UNCHANGED <<prof, dd, wk, raw, disk, srv, prev>>

\* the connection's task ends; the accept loop was never left
ConnectionDone ==
    /\ pc = "responded"
    /\ pc' = "idle"
    /\ res' = NoResult
    /\ raw' = NoFile
    /\ UNCHANGED <<prof, dd, wk, disk, srv, prev>>

\* the stop signal makes run_server return
StopSignal ==
    /\ srv.state = "accepting"
    /\ srv' = [srv EXCEPT !.state = "stopped"]
    /\ UNCHANGED <<prof, pc, res, dd, wk, raw, disk, prev>>

NextHttp ==
    \/ Accept
    \/ Service
    \/ ServicePost
    \/ ConnectionDone
    \/ StopSignal

SpecHttp == InitHttp /\ [][NextHttp]_vars

\* the request in flight is a GET for one of the endpoints that take a
\* function, below the prefix, and its function parameter is absent or empty
FunctionLeftOut ==
    /\ res.kind = "response"
    /\ raw.req.method = "GET"
    /\ raw.req.path \in {PathPrefix \o QueryPath(e) :
                            e \in {"callers", "callees", "asm", "drilldown"}}
    /\ raw.req.params.function \in {None, Some(<<>>)}

\* the response is 200 with the "Missing 'function' parameter" envelope,
\* which carries no data of the analyzer
AnsweredMissingFunction ==
    /\ res.response.status = 200
    /\ res.response.body.kind = "json"
    /\ res.response.body.json = MissingFunction

\* C15 as stated: on the callers, callees, asm and drilldown endpoints a
\* request without a function, or with an empty one, is answered 200 with
\* {success: false, error: "Missing 'function' parameter"} and no query
\* method of the analyzer is invoked
C15_MissingFunctionAlways == FunctionLeftOut => AnsweredMissingFunction

\* C15 amended: the same, on a server that has an analyzer loaded
C15_MissingFunction == (FunctionLeftOut /\ srv.analyzer) => AnsweredMissingFunction

\* the analysis server answered a drilldown request whose function
\* parameter is present and empty
C15_Witness ==
    /\ FunctionLeftOut
    /\ srv.analyzer
    /\ raw.req.path = PathPrefix \o QueryPath("drilldown")
    /\ raw.req.params.function = Some(<<>>)
    /\ raw.req.params.depth = Some(<<"x">>)

\* a JSON envelope: success true with data, or success false with an error
IsEnvelope(json) ==
    /\ DOMAIN json \in {{"success", "query", "data"}, {"success", "error"}}
    /\ json.success <=> "data" \in DOMAIN json

\* the request in flight is a GET below /{prefix}/query/
QueryRequest ==
    /\ raw.kind = "request"
    /\ raw.req.method = "GET"
    /\ starts_with(raw.req.path, PathPrefix \o <<"/", "query", "/">>)

\* C16: every GET below /{prefix}/query/, whatever its endpoint and
\* parameters and whether or not an analyzer is loaded, is answered with a
\* JSON envelope, and serving it leaves the accept loop as it was
C16_EnvelopeAlways ==
    /\ []((QueryRequest /\ pc = "responded") =>
             /\ res.kind = "response"
             /\ res.response.body.kind = "json"
             /\ IsEnvelope(res.response.body.json))
    /\ [][(pc = "request" /\ pc' = "responded") => srv' = srv]_vars

\* the analysis server answered a request for an unknown endpoint with
\* parameters that are not numbers, and is still accepting
C16_Witness ==
    /\ QueryRequest
    /\ pc = "responded"
    /\ srv.analyzer
    /\ srv.state = "accepting"
    /\ raw.req.path = PathPrefix \o QueryPath("nope")
    /\ raw.req.params.limit = Some(<<"x">>)
    /\ ~res.response.body.json.success

\* C17: a response to a request whose path starts with the prefix carries
\* Access-Control-Allow-Origin, also a 404 and an OPTIONS response; a
\* request whose path does not start with it gets the landing page for
\* GET / and an empty 404 otherwise, never with that header
C17_PrefixGatesCors ==
    res.kind = "response" =>
        LET req == raw.req
            r == res.response
        IN  IF starts_with(req.path, PathPrefix)
            THEN "access-control-allow-origin" \in r.headers
            ELSE /\ "access-control-allow-origin" \notin r.headers
                 /\ IF req.method = "GET" /\ req.path = <<"/">>
                    THEN r.status = 200 /\ r.body.kind = "landing"
                    ELSE r.status = 404 /\ r.body = EmptyBody

\* a query path without the prefix was answered 404
C17_Witness ==
    /\ res.kind = "response"
    /\ raw.req.method = "GET"
    /\ raw.req.path = QueryPath("hotspots")
    /\ srv.analyzer
    /\ res.response.status = 404

\* ------------------------------------------------------------------------
\* The same query executed twice on one analyzer
\* ------------------------------------------------------------------------
\* compute_hotspots once more with the arguments of the response at hand
RepeatHotspots ==
    /\ pc = "done"
    /\ res.kind = "hotspots"
    /\ prev = NoResult
    /\ \E order \in SortedBySelf(res.func_stats) :
          res' = [res EXCEPT !.hotspots = HotspotList(order, res.func_stats,
                                                      res.total_weight, res.limit)]
    /\ prev' = res
    /\ UNCHANGED <<prof, pc, dd, wk, raw, disk, srv>>

\* find_callers once more with the same arguments
RepeatCallers ==
    /\ pc = "done"
    /\ res.kind = "callers"
    /\ prev = NoResult
    /\ \E callers \in build_caller_tree(res.caller_data, res.function, res.depth,
                                        res.limit, {}) :
          res' = [res EXCEPT !.callers = callers]
    /\ prev' = res
    /\ UNCHANGED <<prof, pc, dd, wk, raw, disk, srv>>

\* find_callees once more with the same arguments
RepeatCallees ==
    /\ pc = "done"
    /\ res.kind = "callees"
    /\ prev = NoResult
    /\ \E callees \in build_callee_tree(res.callee_data, res.function, res.depth,
                                        res.limit, {}) :
          res' = [res EXCEPT !.callees = callees]
    /\ prev' = res
    /\ UNCHANGED <<prof, pc, dd, wk, raw, disk, srv>>

\* both responses are handed back
ReturnBoth ==
    /\ pc = "done"
    /\ prev # NoResult
    /\ pc' = "idle"
    /\ res' = NoResult
    /\ prev' = NoResult
    /\ UNCHANGED <<prof, dd, wk, raw, disk, srv>>

NextRepeat ==
    \/ ComputeHotspots
    \/ FindCallers
    \/ FindCallees
    \/ RepeatHotspots
    \/ RepeatCallers
    \/ RepeatCallees
    \/ ReturnBoth

\* on the one-thread profiles
SpecRepeat == InitWalk /\ [][NextRepeat]_vars

\* C18: for a fixed profile and fixed arguments, two executions of a query
\* return identical results, the order of entries with equal counts and the
\* choice of the tied entries kept at the limit included
C18_Deterministic == (pc = "done" /\ prev # NoResult) => res = prev

\* ------------------------------------------------------------------------
\* The thread filter of compute_hotspots
\* ------------------------------------------------------------------------
\* the positions in p.threads of the threads whose name contains s
NamedPositions(p, s) == {i \in DOMAIN p.threads : Contains(p.threads[i].name, s)}

\* the profile reduced to the threads whose name contains s
ReducedTo(p, s) ==
    Profile(SelectSeq(p.threads, LAMBDA t : Contains(t.name, s)))

\* the zero-based index in p.threads of the thread that has zero-based index
\* k in the reduced profile
FullIndex(p, s, k) ==
    (CHOOSE i \in NamedPositions(p, s) :
         Cardinality({j \in NamedPositions(p, s) : j < i}) = k) - 1

\* the first-seen thread of a stats entry of the reduced profile, as an index
\* of the full profile
FirstSeenInFull(p, s, st) ==
    IF st.thread_idx = None THEN None ELSE Some(FullIndex(p, s, Unwrap(st.thread_idx)))

TopByTotal(fs, suggestions) ==
    /\ Len(suggestions) = Min(5, Cardinality(DOMAIN fs))
    /\ \A i \in DOMAIN suggestions : suggestions[i].name \in DOMAIN fs
    /\ \A i, j \in DOMAIN suggestions :
          i < j => /\ suggestions[i].name # suggestions[j].name
                   /\ fs[suggestions[i].name].total_samples
                          >= fs[suggestions[j].name].total_samples
    /\ \A n \in DOMAIN fs \ {suggestions[i].name : i \in DOMAIN suggestions} :
          \A i \in DOMAIN suggestions :
              fs[n].total_samples <= fs[suggestions[i].name].total_samples

\* C20: drilldown sets both error and suggestions exactly when the resolved
\* root has no func_stats entry or has total_samples = 0, and leaves both
\* absent otherwise; when set, the suggestions are the top functions by
\* total_samples
C20_ErrorAndSuggestions ==
    (pc = "done" /\ res.kind = "drilldown") =>
        LET no_samples == \/ res.root \notin DOMAIN res.func_stats
                          \/ res.func_stats[res.root].total_samples = 0
        IN  /\ IsSome(res.error) <=> no_samples
            /\ IsSome(res.suggestions) <=> no_samples
            /\ IsSome(res.suggestions) =>
                   TopByTotal(res.func_stats, Unwrap(res.suggestions))

\* ------------------------------------------------------------------------
\* disassemble_function: grouping the annotated instructions into regions
\* ------------------------------------------------------------------------
CONTEXT_LINES == 5

MaxInsns == 13

Max(a, b) == IF a > b THEN a ELSE b

\* usize::saturating_sub
saturating_sub(a, b) == IF a > b THEN a - b ELSE 0

\* an element of all_insns: the address, the samples and the source line the
\* address has in address_samples (both absent when it has no entry there);
\* the address stands for the instruction's text too
AnnotatedInsn(addr, samples, source_line) ==
    [address |-> addr, samples |-> samples, source_line |-> source_line]

AsmInstruction(insn) == [address |-> insn.address, samples |-> insn.samples]

AsmRegion(source_line, source_text, instructions) ==
    [source_line |-> source_line, source_text |-> source_text,
     instructions |-> instructions]

\* the gap indicator pushed between two ranges
GapRegion == AsmRegion(None, Some("..."), <<>>)

\* current_line.and_then(|l| source_lines.get(&l).cloned())
SourceText(source_lines, current_line) ==
    IF IsSome(current_line) /\ Unwrap(current_line) \in DOMAIN source_lines
    THEN Some(source_lines[Unwrap(current_line)])
    ELSE None

RECURSIVE HotIndices(_, _)
\* the indices, from i on, of the instructions that have samples
HotIndices(all_insns, i) ==
    IF i >= Len(all_insns) THEN <<>>
    ELSE (IF IsSome(At(all_insns, i).samples) THEN <<i>> ELSE <<>>)
         \o HotIndices(all_insns, i + 1)

\* a window that stops at the last context instruction but one
WindowEnd_Short(idx, len) == Min(idx + CONTEXT_LINES, len)

\* (idx + CONTEXT_LINES + 1).min(all_insns.len())
WindowEnd(idx, len) == Min(idx + CONTEXT_LINES + 1, len)

RECURSIVE MergeRanges(_, _, _)
\* for &idx in &hot_indices: the window of idx is merged into the last range
\* when it starts at or before that range's end, and pushed otherwise
MergeRanges(ranges, hot_indices, len) ==
    IF hot_indices = <<>> THEN ranges
    ELSE LET idx == Head(hot_indices)
             start == saturating_sub(idx, CONTEXT_LINES)
             end == WindowEnd(idx, len)
         IN  IF ranges # <<>> /\ start <= ranges[Len(ranges)][2]
             THEN MergeRanges([ranges EXCEPT ![Len(ranges)][2] = Max(@, end)],
                              Tail(hot_indices), len)
             ELSE MergeRanges(Append(ranges, <<start, end>>), Tail(hot_indices), len)

RECURSIVE RangeRegions(_, _, _, _, _, _, _)
\* for i in start..end: a change of source line closes the region being
\* collected; what is left at the end of the range is flushed
RangeRegions(regions, current_line, current_insns, all_insns, source_lines, i, end) ==
    IF i >= end
    THEN IF current_insns # <<>>
         THEN Append(regions, AsmRegion(current_line,
                                        SourceText(source_lines, current_line),
                                        current_insns))
         ELSE regions
    ELSE LET insn == At(all_insns, i)
             closes == insn.source_line # current_line /\ current_insns # <<>>
             regions1 == IF closes
                         THEN Append(regions,
                                     AsmRegion(current_line,
                                               SourceText(source_lines, current_line),
                                               current_insns))
                         ELSE regions
             insns1 == IF closes THEN <<>> ELSE current_insns
         IN  RangeRegions(regions1, insn.source_line,
                          Append(insns1, AsmInstruction(insn)),
                          all_insns, source_lines, i + 1, end)

\* a gap indicator in front of every range that starts after position 0
GapNeeded_BeforeFirst(start, last_end, regions) == start > last_end

\* if start > last_end && !regions.is_empty()
GapNeeded(start, last_end, regions) == start > last_end /\ regions # <<>>

RECURSIVE BuildRegions(_, _, _, _, _)
\* for (start, end) in ranges, with last_end the end of the range before
BuildRegions(regions, last_end, ranges, all_insns, source_lines) ==
    IF ranges = <<>> THEN regions
    ELSE LET start == Head(ranges)[1]
             end == Head(ranges)[2]
             regions1 == IF GapNeeded(start, last_end, regions)
                         THEN Append(regions, GapRegion) ELSE regions
         IN  BuildRegions(RangeRegions(regions1, None, <<>>, all_insns,
                                       source_lines, start, end),
                          end, Tail(ranges), all_insns, source_lines)

\* the ranges of the hot instructions' context windows
HotRanges(all_insns) == MergeRanges(<<>>, HotIndices(all_insns, 0), Len(all_insns))

\* the tail of disassemble_function, from all_insns to the regions returned
GroupRegions(all_insns, source_lines) ==
    IF HotIndices(all_insns, 0) = <<>> THEN <<>>
    ELSE BuildRegions(<<>>, 0, HotRanges(all_insns), all_insns, source_lines)

\* how the hot instructions get their source lines: none has one, all have
\* line 1, or they alternate between lines 1 and 2
LineSchemes == {"none", "same", "alternate"}

LineOf(scheme, i) ==
    CASE scheme = "none" -> None
      [] scheme = "same" -> Some(1)
      [] scheme = "alternate" -> Some(1 + (i % 2))

\* a function of n instructions at addresses 0..n-1, those of H sampled
Instructions(n, H, scheme) ==
    [k \in 1..n |-> IF (k - 1) \in H
                    THEN AnnotatedInsn(k - 1, Some(1), LineOf(scheme, k - 1))
                    ELSE AnnotatedInsn(k - 1, None, None)]

\* the lines of the source file; the second one reads "..."
SourceLines == (1 :> "x") @@ (2 :> "...")

\* every function of up to MaxInsns instructions with every set of hot
\* ones, and one of 50 instructions hot at 10, 11 and 30
InstructionLists ==
    {Instructions(n, H, scheme) :
         n \in 0..MaxInsns, H \in SUBSET (0..(MaxInsns - 1)), scheme \in LineSchemes}
    \cup {Instructions(50, {10, 11, 30}, scheme) : scheme \in LineSchemes}

InitRegions ==
    /\ raw \in {[kind |-> "insns", all_insns |-> l] : l \in InstructionLists}
    /\ prof = Profile(<<>>)
    /\ pc = "idle"
    /\ res = NoResult
    /\ dd = NoDrilldown
    /\ wk = NoWalk
    /\ disk = NoSessionFile
    /\ srv = NoServer
    /\ prev = NoResult

\* disassemble_function from the annotated instruction list on
DisassembleGroup ==
    /\ pc = "idle"
    /\ raw.kind = "insns"
    /\ res' = [ kind    |-> "regions",
                ranges  |-> HotRanges(raw.all_insns),
                regions |-> GroupRegions(raw.all_insns, SourceLines) ]
    /\ pc' = "done"
    /\ UNCHANGED <<prof, dd, wk>>
    /\ UNCHANGED hostvars

NextRegions == DisassembleGroup \/ Return

SpecRegions == InitRegions /\ [][NextRegions]_vars

RECURSIVE Flatten(_)
\* the instruction addresses of a list of regions, in the order emitted
Flatten(regions) ==
    IF regions = <<>> THEN <<>>
    ELSE [k \in DOMAIN Head(regions).instructions |->
              Head(regions).instructions[k].address]
         \o Flatten(Tail(regions))

\* the indices of the sampled instructions of a list
HotSet(all_insns) == {i \in 0..(Len(all_insns) - 1) : IsSome(At(all_insns, i).samples)}

\* the indices within five of a hot one
NearHot(all_insns) ==
    {i \in 0..(Len(all_insns) - 1) :
        \E h \in HotSet(all_insns) : i - h <= 5 /\ h - i <= 5}

\* C21: the instructions emitted across all regions are exactly the indices
\* within five of a hot index, each emitted once, in increasing order; 50
\* instructions hot at 10, 11 and 30 give the ranges [5, 17) and [25, 36)
C21_RegionCoverage ==
    (pc = "done" /\ res.kind = "regions") =>
        LET emitted == Flatten(res.regions)
        IN  /\ {emitted[k] : k \in DOMAIN emitted} = NearHot(raw.all_insns)
            /\ \A j, k \in DOMAIN emitted : j < k => emitted[j] < emitted[k]
            /\ (Len(raw.all_insns) = 50 /\ HotSet(raw.all_insns) = {10, 11, 30})
                   => res.ranges = <<<<5, 17>>, <<25, 36>>>>

\* two hot instructions far enough apart for two ranges, the second window
\* cut off by the end of the function
C21_Witness ==
    /\ pc = "done" /\ res.kind = "regions"
    /\ Len(res.ranges) = 2
    /\ HotSet(raw.all_insns) = {0, 12}
    /\ Len(raw.all_insns) = 13

\* a region that is the gap marker: no source line, source text "...", no
\* instructions
IsGapMarker(region) == region = AsmRegion(None, Some("..."), <<>>)

FirstAddress(region) == region.instructions[1].address

LastAddress(region) == region.instructions[Len(region.instructions)].address

\* C27: a gap marker stands exactly between the regions of two consecutive
\* ranges that are not contiguous: it is never first, never last, never next
\* to another marker and never inside a range; every other region holds
\* instructions; with no hot instruction the list is empty
C27_GapMarkers ==
    (pc = "done" /\ res.kind = "regions") =>
        LET regions == res.regions
        IN  /\ HotSet(raw.all_insns) = {} => regions = <<>>
            /\ \A k \in DOMAIN regions :
                  IsGapMarker(regions[k]) \/ regions[k].instructions # <<>>
            /\ \A k \in DOMAIN regions :
                  IsGapMarker(regions[k]) =>
                      /\ 1 < k /\ k < Len(regions)
                      /\ ~IsGapMarker(regions[k - 1])
                      /\ ~IsGapMarker(regions[k + 1])
                      /\ FirstAddress(regions[k + 1]) > LastAddress(regions[k - 1]) + 1
            /\ \A k \in 1..(Len(regions) - 1) :
                  (~IsGapMarker(regions[k]) /\ ~IsGapMarker(regions[k + 1])) =>
                      FirstAddress(regions[k + 1]) = LastAddress(regions[k]) + 1
            /\ Cardinality({k \in DOMAIN regions : IsGapMarker(regions[k])})
                   = Max(Len(res.ranges), 1) - 1

\* two ranges, the first of them split into several regions by its source
\* lines, the second one not starting the list, and one marker between them
C27_Witness ==
    /\ pc = "done" /\ res.kind = "regions"
    /\ Len(res.ranges) = 2
    /\ res.ranges[1][1] > 0
    /\ Len(res.regions) > 4
    /\ \E k \in DOMAIN res.regions : IsGapMarker(res.regions[k])

\* ------------------------------------------------------------------------
\* get_asm
\* ------------------------------------------------------------------------
HexDigitChars ==
    <<"0", "1", "2", "3", "4", "5", "6", "7", "8", "9", "a", "b", "c", "d", "e", "f">>

RECURSIVE LowerHex(_)
\* {:x}
LowerHex(n) ==
    IF n < 16 THEN <<HexDigitChars[n + 1]>>
    ELSE LowerHex(n \div 16) \o <<HexDigitChars[(n % 16) + 1]>>

\* format!("0x{:x}", ns_info.address)
FormatAddress(n) == <<"0", "x">> \o LowerHex(n)

RECURSIVE trim_start_matches(_)
\* s.trim_start_matches("0x"): every leading repetition of "0x" is removed
trim_start_matches(s) ==
    IF Len(s) >= 2 /\ s[1] = "0" /\ s[2] = "x"
    THEN trim_start_matches(SubSeq(s, 3, Len(s)))
    ELSE s

RECURSIVE HexNumber(_, _)
HexNumber(s, acc) ==
    IF s = <<>> THEN acc
    ELSE HexNumber(Tail(s),
                   16 * acc + (CHOOSE d \in 0..15 : HexDigitChars[d + 1] = Head(s)))

\* u64::from_str_radix(s, 16).ok() on the strings format! produces: the
\* empty string and a string with another character than a digit fail
from_str_radix(s) ==
    IF s # <<>> /\ \A i \in DOMAIN s : \E d \in 0..15 : HexDigitChars[d + 1] = s[i]
    THEN Some(HexNumber(s, 0))
    ELSE None

NativeSymbolInfo(address, size, lib_index) ==
    [address |-> address, size |-> size, lib_index |-> lib_index]

LibInfo(name, path, arch) == [name |-> name, path |-> path, arch |-> arch]

\* self.libs.get(idx)
LibsGet(p, idx) == IF idx < Len(p.libs) THEN Some(At(p.libs, idx)) ELSE None

\* the address and size of the first frame of the function that has a
\* native symbol
find_func_native_symbol_info(p, thread_idx, func_idx) ==
    LET t == At(p.threads, thread_idx)
        hits == {f \in 0..(Len(t.frame_func) - 1) :
                    /\ At(t.frame_func, f) = func_idx
                    /\ IsSome(get_frame_native_symbol(t, f))}
    IN  IF hits = {} THEN <<None, None>>
        ELSE LET f == CHOOSE x \in hits : \A y \in hits : x <= y
                 ns_info == Unwrap(get_frame_native_symbol(t, f))
             IN  <<Some(FormatAddress(ns_info.address)), ns_info.size>>

\* FunctionInfo without line_number
FunctionInfo(name, library, file_path, address, size) ==
    [name |-> name, library |-> library, file_path |-> file_path,
     address |-> address, size |-> size]

\* func_info of get_asm, from the first-seen indices of the aggregation
AsmFunctionInfo(p, target, agg) ==
    IF IsSome(agg.func_idx) /\ IsSome(agg.thread_idx)
    THEN LET t == At(p.threads, Unwrap(agg.thread_idx))
             fidx == Unwrap(agg.func_idx)
             lib_index == get_func_lib_index(t, fidx)
             lib == IF IsSome(lib_index) THEN LibsGet(p, Unwrap(lib_index)) ELSE None
             info == find_func_native_symbol_info(p, Unwrap(agg.thread_idx), fidx)
         IN  FunctionInfo(target,
                          IF IsSome(lib) THEN Some(Unwrap(lib).name) ELSE None,
                          get_func_file(t, fidx, p.global_strings),
                          info[1], info[2])
    ELSE FunctionInfo(target, None, None, None, None)

AsmResponse(locals, regions, error) ==
    [ kind         |-> "asm",
      pattern      |-> locals.pattern,
      function     |-> locals.function,
      file_path    |-> locals.function.file_path,
      regions      |-> regions,
      self_samples |-> locals.self_samples,
      error        |-> error ]

\* a guard that goes on to disassemble without a size
CanDisassemble_WithoutSize(func_base_addr, func_size, lib_info) ==
    IsSome(func_base_addr) /\ IsSome(lib_info)

\* if let (Some(base_addr), Some(size), Some(lib)) = (func_base_addr, func_size, lib_info)
CanDisassemble(func_base_addr, func_size, lib_info) ==
    IsSome(func_base_addr) /\ IsSome(func_size) /\ IsSome(lib_info)

\* the thread of the get_asm profiles: the chain of three stacks, functions
\* "ab", "b" and one past the function table, samples on "b" and below
AsmThreads ==
    {[ThreadData(<<"m">>, <<>>, <<2, 1>>,
                 StackTable(<<None, Some(0), Some(1)>>, <<0, 1, 2>>), sm)
         EXCEPT !.frame_address = c[1], !.frame_line = c[2],
                !.frame_native_symbol = c[3], !.native_symbols = c[4],
                !.func_resource = c[5], !.resource_lib = c[6],
                !.func_file_idx = <<None, Some(0)>>] :
        sm \in {<<Sample(Some(1), 2)>>,
                <<Sample(Some(1), 1), Sample(Some(2), 1), Sample(Some(1), 1)>>,
                <<Sample(Some(0), 1)>>},
        c \in {<<None, Some(3), Some(4)>>, <<>>}
              \X {<<None, Some(1), Some(2)>>, <<>>}
              \X {<<>>, <<None, Some(0), None>>, <<None, Some(3), None>>}
              \X {<<NativeSymbolInfo(2, Some(3), None)>>,
                  <<NativeSymbolInfo(2, None, Some(0))>>,
                  <<NativeSymbolInfo(2, Some(9), None)>>}
              \X {<<>>, <<None, Some(0)>>, <<None, Some(-1)>>, <<None, Some(1)>>}
              \X {<<Some(0)>>, <<None>>, <<Some(4)>>}}

AsmProfiles ==
    {[Profile(<<t>>) EXCEPT !.libs = libs] :
        t \in AsmThreads,
        libs \in {<<>>, <<LibInfo(<<"l">>, <<"p">>, "x86_64")>>,
                  <<LibInfo(<<"l">>, <<"p">>, "mips")>>}}

\* the file at the library's path: absent, not an object file, or an object
\* file whose text section holds 8 bytes at address 0; opened tells whether
\* get_asm has read it
Binaries ==
    {[kind |-> "binary", exists |-> e[1], parses |-> e[2], image_base |-> 0,
      sec_addr |-> 0, sec_len |-> 8, opened |-> FALSE] :
        e \in {<<FALSE, FALSE>>, <<TRUE, FALSE>>, <<TRUE, TRUE>>}}

InitAsm ==
    /\ prof \in AsmProfiles
    /\ raw \in Binaries
    /\ pc = "idle"
    /\ res = NoResult
    /\ dd = NoDrilldown
    /\ wk = NoWalk
    /\ disk = NoSessionFile
    /\ srv = NoServer
    /\ prev = NoResult

\* get_asm(pattern) up to the decision whether to disassemble
GetAsmStart ==
    /\ pc = "idle"
    /\ WalksEnd(prof, None)
    /\ \E pattern \in Patterns :
          LET target == find_matching_function(prof, pattern)
              agg == AsmAggregate(prof, target)
              func_info == AsmFunctionInfo(prof, target, agg)
          IN  dd' = [ root           |-> <<>>,
                      pattern        |-> pattern,
                      self_samples   |-> agg.self_samples,
                      address_data   |-> agg.address_data,
                      function       |-> func_info,
                      func_base_addr |->
                          IF IsSome(func_info.address)
                          THEN from_str_radix(
                                   trim_start_matches(Unwrap(func_info.address)))
                          ELSE None,
                      func_size      |-> func_info.size,
                      lib_info       |-> IF IsSome(agg.lib_idx)
                                         THEN LibsGet(prof, Unwrap(agg.lib_idx))
                                         ELSE None ]
    /\ pc' = "asm"
    /\ UNCHANGED <<prof, res, wk>>
    /\ UNCHANGED hostvars

\* the else branch: nothing is disassembled
GetAsmMissing ==
    /\ pc = "asm"
    /\ ~CanDisassemble(dd.func_base_addr, dd.func_size, dd.lib_info)
    /\ res' = AsmResponse(dd, None, Some("Missing function address, size, or library info"))
    /\ pc' = "done"
    /\ UNCHANGED <<prof, dd, wk>>
    /\ UNCHANGED hostvars

\* disassemble_function: binary_path.exists() is false
DisassembleNoBinary ==
    /\ pc = "asm"
    /\ CanDisassemble(dd.func_base_addr, dd.func_size, dd.lib_info)
    /\ ~raw.exists
    /\ res' = AsmResponse(dd, None, Some("Binary not found"))
    /\ pc' = "done"
    /\ UNCHANGED <<prof, dd, wk>>
    /\ UNCHANGED hostvars

\* disassemble_function: std::fs::read of the binary and object::File::parse
DisassembleRead ==
    /\ pc = "asm"
    /\ CanDisassemble(dd.func_base_addr, dd.func_size, dd.lib_info)
    /\ raw.exists
    /\ raw' = [raw EXCEPT !.opened = TRUE]
    /\ IF raw.parses
       THEN pc' = "disasm" /\ res' = res
       ELSE pc' = "done" /\ res' = AsmResponse(dd, None, Some("Failed to parse binary"))
    /\ UNCHANGED <<prof, dd, wk, disk, srv, prev>>

\* the instructions capstone returns for the function's bytes, taken as one
\* instruction per byte, annotated from address_samples
AllInsns(base_addr, size, address_samples) ==
    [k \in 1..size |->
        LET addr == base_addr + k - 1
        IN  IF addr \in DOMAIN address_samples
            THEN AnnotatedInsn(addr, Some(address_samples[addr].samples),
                               address_samples[addr].line)
            ELSE AnnotatedInsn(addr, None, None)]

\* disassemble_function after the parse: the function's bytes in the text
\* section, the disassembler for the library's architecture, the regions
DisassembleFinish ==
    /\ pc = "disasm"
    /\ LET base_addr == Unwrap(dd.func_base_addr)
           size == Unwrap(dd.func_size)
           absolute_addr == base_addr + raw.image_base
           found == /\ absolute_addr >= raw.sec_addr
                    /\ absolute_addr < raw.sec_addr + raw.sec_len
                    /\ (absolute_addr - raw.sec_addr) + size <= raw.sec_len
       IN  IF ~found
           THEN res' = AsmResponse(dd, None, Some("Function not found in binary"))
           ELSE IF Unwrap(dd.lib_info).arch \notin
                       {"aarch64", "arm64", "x86_64", "x86-64", "", "x86", "i386"}
           THEN res' = AsmResponse(dd, None, Some("Unsupported architecture"))
           ELSE \E disasm_ok \in BOOLEAN :
                   res' = IF disasm_ok
                          THEN AsmResponse(dd,
                                   Some(GroupRegions(
                                       AllInsns(base_addr, size, dd.address_data),
                                       IF IsSome(dd.function.file_path)
                                       THEN SourceLines ELSE <<>>)),
                                   None)
                          ELSE AsmResponse(dd, None, Some("Disassembly failed"))
    /\ pc' = "done"
    /\ UNCHANGED <<prof, dd, wk>>
    /\ UNCHANGED hostvars

\* get_asm returns: the bytes read from the binary are dropped
AsmReturn ==
    /\ pc = "done"
    /\ pc' = "idle"
    /\ res' = NoResult
    /\ dd' = NoDrilldown
    /\ raw' = [raw EXCEPT !.opened = FALSE]
    /\ UNCHANGED <<prof, wk, disk, srv, prev>>

NextAsm ==
    \/ GetAsmStart
    \/ GetAsmMissing
    \/ DisassembleNoBinary
    \/ DisassembleRead
    \/ DisassembleFinish
    \/ AsmReturn

SpecAsm == InitAsm /\ [][NextAsm]_vars

\* the function's base address, its size or its library is not known
InfoMissing(function) ==
    \/ function.address = None
    \/ function.size = None
    \/ function.library = None

\* C22: whenever the function's base address, its size or its owning library
\* cannot be recovered from the profile, get_asm returns a response with
\* error set and regions absent, and it never opens the binary
C22_MissingInfo ==
    (pc \in {"asm", "disasm", "done"} /\ InfoMissing(dd.function)) =>
        /\ ~raw.opened
        /\ pc # "disasm"
        /\ pc = "done" => /\ IsSome(res.error)
                          /\ res.regions = None
                          /\ res.function = dd.function

\* a function that was sampled and has a native symbol with an address but
\* no size, in a library whose binary exists
C22_Witness ==
    /\ pc = "done" /\ res.kind = "asm"
    /\ res.self_samples > 0
    /\ IsSome(res.function.address) /\ IsSome(res.function.library)
    /\ res.function.size = None
    /\ raw.exists
    /\ IsSome(res.error)

\* ------------------------------------------------------------------------
\* run_server: the accept loop, the stop signal and the connection tasks
\* ------------------------------------------------------------------------
MaxConns == 2

\* a connection task is reading its request (awaiting the socket), inside
\* the service function computing the response (no await), or writing the
\* response (awaiting the socket); the runtime drops a task at an await
TaskStates ==
    {"reading", "computing", "writing", "done", "dropped_reading", "dropped_writing"}

\* srv of the accept loop: whether the stop signal has fired, the loop, the
\* tasks spawned so far, and the serve command awaiting the join handle
InitStop ==
    /\ srv = [state |-> "serving", stop |-> FALSE, loop |-> "accepting",
              tasks |-> <<>>, runtime |-> "running"]
    /\ prof = Profile(<<>>)
    /\ pc = "idle"
    /\ res = NoResult
    /\ dd = NoDrilldown
    /\ wk = NoWalk
    /\ raw = NoFile
    /\ disk = NoSessionFile
    /\ prev = NoResult

\* the process receives Ctrl-C: the oneshot receiver becomes ready
StopFires ==
    /\ ~srv.stop
    /\ srv.runtime = "running"
    /\ srv' = [srv EXCEPT !.stop = TRUE]
    /\ UNCHANGED <<prof, pc, res, dd, wk, raw, disk, prev>>

\* an accept loop that goes on after it has returned
LoopAccepts_Always(server) == TRUE

\* the loop is at its select!
LoopAccepts(server) == server.loop = "accepting"

\* select! takes the accept branch (it may, even when the stop signal is
\* ready too) and the loop spawns a task for the connection
AcceptSpawn ==
    /\ LoopAccepts(srv)
    /\ srv.runtime = "running"
    /\ Len(srv.tasks) < MaxConns
    /\ srv' = [srv EXCEPT !.tasks = Append(@, "reading")]
    /\ UNCHANGED <<prof, pc, res, dd, wk, raw, disk, prev>>

\* select! takes the stop branch: return Ok(ctrl_c_result?)
LoopReturns ==
    /\ srv.loop = "accepting"
    /\ srv.stop
    /\ srv' = [srv EXCEPT !.loop = "returned"]
    /\ UNCHANGED <<prof, pc, res, dd, wk, raw, disk, prev>>

\* hyper has read a request and calls the service function
TaskReads(i) ==
    /\ i \in DOMAIN srv.tasks
    /\ srv.tasks[i] = "reading"
    /\ srv.runtime = "running"
    /\ srv' = [srv EXCEPT !.tasks[i] = "computing"]
    /\ UNCHANGED <<prof, pc, res, dd, wk, raw, disk, prev>>

\* handle_query_request returns; it has no await, so the poll that runs it
\* goes on while the runtime shuts down
TaskComputes(i) ==
    /\ i \in DOMAIN srv.tasks
    /\ srv.tasks[i] = "computing"
    /\ srv' = [srv EXCEPT !.tasks[i] = "writing"]
    /\ UNCHANGED <<prof, pc, res, dd, wk, raw, disk, prev>>

\* the response has been written to the connection
TaskWrites(i) ==
    /\ i \in DOMAIN srv.tasks
    /\ srv.tasks[i] = "writing"
    /\ srv.runtime = "running"
    /\ srv' = [srv EXCEPT !.tasks[i] = "done"]
    /\ UNCHANGED <<prof, pc, res, dd, wk, raw, disk, prev>>

\* server_join_handle.await returns, the session file is removed, block_on
\* returns and the runtime is dropped: a task at an await is dropped there
RuntimeShutdown ==
    /\ srv.loop = "returned"
    /\ srv.runtime = "running"
    /\ srv' = [srv EXCEPT
                  !.state = "removed",
                  !.runtime = "shutdown",
                  !.tasks = [i \in DOMAIN @ |->
                                CASE @[i] = "reading" -> "dropped_reading"
                                  [] @[i] = "writing" -> "dropped_writing"
                                  [] OTHER -> @[i]]]
    /\ disk' = NoSessionFile
    /\ UNCHANGED <<prof, pc, res, dd, wk, raw, prev>>

\* during the shutdown a task that reaches its next await is dropped
TaskDropped(i) ==
    /\ i \in DOMAIN srv.tasks
    /\ srv.tasks[i] = "writing"
    /\ srv.runtime = "shutdown"
    /\ srv' = [srv EXCEPT !.tasks[i] = "dropped_writing"]
    /\ UNCHANGED <<prof, pc, res, dd, wk, raw, disk, prev>>

\* dropping the runtime returns once no worker is polling a task, and main ends
RuntimeExit ==
    /\ srv.runtime = "shutdown"
    /\ \A i \in DOMAIN srv.tasks : srv.tasks[i] \notin {"computing", "writing"}
    /\ srv' = [srv EXCEPT !.state = "exited", !.runtime = "exited"]
    /\ UNCHANGED <<prof, pc, res, dd, wk, raw, disk, prev>>

NextStop ==
    \/ StopFires
    \/ AcceptSpawn
    \/ LoopReturns
    \/ \E i \in 1..MaxConns : TaskReads(i)
    \/ \E i \in 1..MaxConns : TaskComputes(i)
    \/ \E i \in 1..MaxConns : TaskWrites(i)
    \/ RuntimeShutdown
    \/ \E i \in 1..MaxConns : TaskDropped(i)
    \/ RuntimeExit

SpecStop == InitStop /\ [][NextStop]_vars

\* select! picks among its ready branches at random, so the stop branch is
\* taken in the end; a worker that runs the service function keeps running
SpecStopLive ==
    /\ SpecStop
    /\ WF_vars(LoopReturns)
    /\ \A i \in 1..MaxConns : WF_vars(TaskComputes(i))

\* task i is inside the service function
Computing(i) == i \in DOMAIN srv.tasks /\ srv.tasks[i] = "computing"

\* the service function of task i has returned its response
Computed(i) ==
    i \in DOMAIN srv.tasks /\ srv.tasks[i] \in {"writing", "done", "dropped_writing"}

\* C23: once the stop signal has fired the accept loop eventually returns,
\* and after its return no connection task is spawned; the return itself
\* leaves the tasks spawned before as they are, and a task that is computing
\* a query gets to the end of the computation
C23_StopCancelsAccept ==
    /\ srv.stop ~> (srv.loop = "returned")
    /\ [][srv.loop = "returned" => Len(srv'.tasks) = Len(srv.tasks)]_vars
    /\ [][(srv.loop = "accepting" /\ srv'.loop = "returned")
              => srv'.tasks = srv.tasks]_vars
    /\ \A i \in 1..MaxConns : Computing(i) ~> Computed(i)

\* the loop has returned and the runtime is shutting down while a task
\* spawned before is still computing and another one has been dropped
C23_Witness ==
    /\ srv.stop
    /\ srv.loop = "returned"
    /\ srv.runtime = "shutdown"
    /\ \E i \in DOMAIN srv.tasks : srv.tasks[i] = "computing"
    /\ \E i \in DOMAIN srv.tasks : srv.tasks[i] = "dropped_reading"

\* ------------------------------------------------------------------------
\* The caller and callee trees
\* ------------------------------------------------------------------------
\* the number of adjacent positions of a leaf-first walk where x is
\* immediately leaf-side of y
Adjacencies(names, x, y) ==
    Cardinality({i \in 1..(Len(names) - 1) : names[i] = x /\ names[i + 1] = y})

RECURSIVE EdgeSum(_, _, _, _)
EdgeSum(p, ids, x, y) ==
    IF ids = {} THEN 0
    ELSE LET id == CHOOSE i \in ids : TRUE
         IN  SampleAt(p, id).weight * Adjacencies(StackNames(p, id), x, y)
             + EdgeSum(p, ids \ {id}, x, y)

\* the weight of the edge from callee x to caller y: over all samples of all
\* threads, the weight times the number of adjacencies
EdgeWeight(p, x, y) == EdgeSum(p, SampleIds(p, None), x, y)

\* the names that occur in the stack of some sample
StackNameSet(p) ==
    UNION {Range(StackNames(p, id)) : id \in SampleIds(p, None)}

RECURSIVE SumOfSet(_, _, _, _)
\* the sum over the names n of S of EdgeWeight(p, x, n) (callers of x) or of
\* EdgeWeight(p, n, x) (callees of x)
SumOfSet(p, S, x, callers) ==
    IF S = {} THEN 0
    ELSE LET n == CHOOSE m \in S : TRUE
         IN  (IF callers THEN EdgeWeight(p, x, n) ELSE EdgeWeight(p, n, x))
             + SumOfSet(p, S \ {n}, x, callers)

RECURSIVE CallerTreeOk(_, _, _, _, _)
\* a callers vector under parent: empty at depth 0, at most limit entries in
\* non-increasing call_count order, each with the weight of its edge to the
\* parent and its share of the weight of all the parent's callers
CallerTreeOk(p, parent, callers, depth, limit) ==
    /\ depth = 0 => callers = <<>>
    /\ Len(callers) <= limit
    /\ \A i, j \in DOMAIN callers :
          i < j => callers[i].call_count >= callers[j].call_count
    /\ \A i \in DOMAIN callers :
          LET c == EdgeWeight(p, parent, callers[i].name)
              total == SumOfSet(p, StackNameSet(p), parent, TRUE)
          IN  /\ callers[i].call_count = c
              /\ total # 0 =>
                     callers[i].percent[1] * total = 100 * c * callers[i].percent[2]
              /\ CallerTreeOk(p, callers[i].name, callers[i].callers, depth - 1, limit)

RECURSIVE CalleeTreeOk(_, _, _, _, _)
CalleeTreeOk(p, parent, callees, depth, limit) ==
    /\ depth = 0 => callees = <<>>
    /\ Len(callees) <= limit
    /\ \A i, j \in DOMAIN callees :
          i < j => callees[i].call_count >= callees[j].call_count
    /\ \A i \in DOMAIN callees :
          LET c == EdgeWeight(p, callees[i].name, parent)
              total == SumOfSet(p, StackNameSet(p), parent, FALSE)
          IN  /\ callees[i].call_count = c
              /\ total # 0 =>
                     callees[i].percent[1] * total = 100 * c * callees[i].percent[2]
              /\ CalleeTreeOk(p, callees[i].name, callees[i].callees, depth - 1, limit)

\* C24: the tree find_callers (find_callees) returns has nesting depth at
\* most D, every sibling list has at most L entries in non-increasing
\* call_count order, each call_count is the weight of the edge to the parent
\* and each percent is 100 * call_count over the sum of call_count of all
\* callers (callees) of the parent before truncation
C24_TreeShape ==
    /\ (pc = "done" /\ res.kind = "callers") =>
           CallerTreeOk(prof, res.function, res.callers, res.depth, res.limit)
    /\ (pc = "done" /\ res.kind = "callees") =>
           CalleeTreeOk(prof, res.function, res.callees, res.depth, res.limit)

\* ------------------------------------------------------------------------
\* build_caller_tree and build_callee_tree with their visited set
\* ------------------------------------------------------------------------
MaxExpandDepth == 3

RECURSIVE InsertByCount(_, _)
\* e goes behind every entry whose call_count is not smaller
InsertByCount(sorted, e) ==
    IF sorted = <<>> THEN <<e>>
    ELSE IF Head(sorted).call_count >= e.call_count
         THEN <<Head(sorted)>> \o InsertByCount(Tail(sorted), e)
         ELSE <<e>> \o sorted

RECURSIVE sort_by_count(_)
\* sort_by(|a, b| b.call_count.cmp(&a.call_count)): stable
sort_by_count(entries) ==
    IF entries = <<>> THEN <<>>
    ELSE InsertByCount(sort_by_count(SubSeq(entries, 1, Len(entries) - 1)),
                       entries[Len(entries)])

\* a CallerEntry or a CalleeEntry
TreeEntry(callers, name, call_count, percent, sub) ==
    IF callers THEN CallerEntry(name, call_count, percent, sub)
    ELSE CalleeEntry(name, call_count, percent, sub)

\* the loop that computes the percentages
WithPercents(callers, entries) ==
    LET total == SumSeq([i \in DOMAIN entries |-> entries[i].call_count])
    IN  [i \in DOMAIN entries |->
            [entries[i] EXCEPT !.percent = Percent(entries[i].call_count, total)]]

\* a function that returns without taking its target out of the set
remove_Skipped(visited, target) == visited

\* visited.remove(target)
remove(visited, target) == visited \ {target}

RECURSIVE ExpandTree(_, _, _, _, _, _)
RECURSIVE ExpandEach(_, _, _, _, _, _, _, _)
\* build_caller_tree (callers = TRUE) or build_callee_tree on the edge map
\* data, with the set visited passed by mutable reference: the outcomes
\* [entries, visited] of the call, one for each iteration order of the maps
ExpandTree(callers, data, target, depth, limit, visited) ==
    IF depth = 0 \/ target \in visited
    THEN {[entries |-> <<>>, visited |-> visited]}
    ELSE LET inner == CalleesOf(data, target)
         IN  UNION {
                 {[entries |-> Take(sort_by_count(WithPercents(callers, run.entries)),
                                    limit),
                   visited |-> remove(run.visited, target)] :
                      run \in ExpandEach(callers, data, inner, o, 1, depth, limit,
                                         [entries |-> <<>>,
                                          visited |-> visited \cup {target}])} :
                 o \in Perms(DOMAIN inner)}

\* the closure of .iter().map(..) applied to the keys o[i], o[i+1], ..: each
\* recursive call sees the set as the calls before it left it
ExpandEach(callers, data, inner, o, i, depth, limit, acc) ==
    IF i > Len(o) THEN {acc}
    ELSE UNION {
             ExpandEach(callers, data, inner, o, i + 1, depth, limit,
                        [entries |-> Append(acc.entries,
                                            TreeEntry(callers, o[i], inner[o[i]].count,
                                                      Zero, sub.entries)),
                         visited |-> sub.visited]) :
             sub \in ExpandTree(callers, data, o[i], depth - 1, limit, acc.visited)}

C == <<"c">>

\* the edge map of a call graph given as a set of <<key, inner key>> pairs;
\* an edge into "ab" has count 2, the others 1
EdgeMap(edges) ==
    [x \in {e[1] : e \in edges} |->
        [y \in {e[2] : e \in {d \in edges : d[1] = x}} |->
            [count |-> IF y = AB THEN 2 ELSE 1, func_idx |-> None, thread_idx |-> None]]]

\* every graph on "a", "b", "ab" in which a function has at most two
\* neighbours, and a diamond on four functions, alone and closed to a cycle
CallGraphs ==
    {g \in SUBSET ({A, B, AB} \X {A, B, AB}) :
        \A x \in {A, B, AB} : Cardinality({e \in g : e[1] = x}) <= 2}
    \cup {{<<A, B>>, <<A, AB>>, <<B, AB>>, <<AB, C>>},
          {<<A, B>>, <<A, AB>>, <<B, AB>>, <<AB, C>>, <<C, A>>}}

InitTree ==
    /\ raw \in {[kind |-> "graph", data |-> EdgeMap(g)] : g \in CallGraphs}
    /\ prof = Profile(<<>>)
    /\ pc = "idle"
    /\ res = NoResult
    /\ dd = NoDrilldown
    /\ wk = NoWalk
    /\ disk = NoSessionFile
    /\ srv = NoServer
    /\ prev = NoResult

\* build_caller_tree(self, &caller_data, &target, depth, limit, &mut Default::default())
BuildCallerTree ==
    /\ pc = "idle"
    /\ raw.kind = "graph"
    /\ \E target \in {A, B, AB, C}, depth \in 0..MaxExpandDepth, limit \in 0..MaxLimit :
          \E run \in ExpandTree(TRUE, raw.data, target, depth, limit, {}) :
             res' = [kind |-> "tree", callers |-> TRUE, target |-> target,
                     depth |-> depth, limit |-> limit,
                     entries |-> run.entries, visited |-> run.visited]
    /\ pc' = "done"
    /\ UNCHANGED <<prof, dd, wk>>
    /\ UNCHANGED hostvars

\* build_callee_tree(self, &callee_data, &target, depth, limit, &mut Default::default())
BuildCalleeTree ==
    /\ pc = "idle"
    /\ raw.kind = "graph"
    /\ \E target \in {A, B, AB, C}, depth \in 0..MaxExpandDepth, limit \in 0..MaxLimit :
          \E run \in ExpandTree(FALSE, raw.data, target, depth, limit, {}) :
             res' = [kind |-> "tree", callers |-> FALSE, target |-> target,
                     depth |-> depth, limit |-> limit,
                     entries |-> run.entries, visited |-> run.visited]
    /\ pc' = "done"
    /\ UNCHANGED <<prof, dd, wk>>
    /\ UNCHANGED hostvars

NextTree == BuildCallerTree \/ BuildCalleeTree \/ Return

SpecTree == InitTree /\ [][NextTree]_vars

\* the child list of an entry
Children(callers, entry) == IF callers THEN entry.callers ELSE entry.callees

RECURSIVE PathLocal(_, _, _, _, _, _)
\* under the functions of path, with depth levels left: an entry named like
\* one of them has no children, and any other entry that has neighbours in
\* the edge map has children when a level and room for an entry are left
PathLocal(callers, data, entries, path, depth, limit) ==
    \A i \in DOMAIN entries :
        LET name == entries[i].name
            children == Children(callers, entries[i])
        IN  /\ name \in path => children = <<>>
            /\ (/\ name \notin path
                /\ depth > 1
                /\ limit > 0
                /\ DOMAIN CalleesOf(data, name) # {}) => children # <<>>
            /\ PathLocal(callers, data, children, path \cup {name}, depth - 1, limit)

\* C25: the expansion ends on every call graph; an entry named like the
\* target or one of its ancestors on the path is never expanded, every
\* other entry is, whatever was expanded in another branch, and when the
\* recursion has returned the visited set is empty again; the result is the
\* one of a recursion that is handed the set of its ancestors
C25_PathLocalVisited ==
    (pc = "done" /\ res.kind = "tree") =>
        /\ res.visited = {}
        /\ PathLocal(res.callers, raw.data, res.entries, {res.target},
                     res.depth, res.limit)
        /\ res.entries \in
               (IF res.callers
                THEN build_caller_tree(raw.data, res.target, res.depth, res.limit, {})
                ELSE build_callee_tree(raw.data, res.target, res.depth, res.limit, {}))

\* the diamond closed to a cycle: "ab" is expanded under "a" and again under
\* "b", and below it the target "a" comes back and is not expanded
C25_Witness ==
    /\ pc = "done" /\ res.kind = "tree" /\ res.callers
    /\ res.target = A /\ res.depth = 3 /\ Len(res.entries) = 2
    /\ \E i, j \in DOMAIN res.entries :
          /\ res.entries[i].name = AB
          /\ res.entries[i].callers # <<>>
          /\ res.entries[j].name = B
          /\ \E k \in DOMAIN res.entries[j].callers :
                /\ res.entries[j].callers[k].name = AB
                /\ res.entries[j].callers[k].callers # <<>>
    /\ C \in DOMAIN raw.data

\* ------------------------------------------------------------------------
\* The drilldown path
\* ------------------------------------------------------------------------
\* one thread with the functions "b", "a", "ab": "a" calls itself, and the
\* inner "a" calls "b" in one stack and "ab" in another
RecursiveStackTable ==
    StackTable(<<None, Some(0), Some(1), Some(1)>>, <<1, 1, 0, 2>>)

PathProfiles ==
    {Profile(<<ThreadData(<<"m">>, <<B, A>>, <<0, 1, 2>>, RecursiveStackTable,
                          <<Sample(Some(2), w1), Sample(Some(3), w2)>>)>>) :
         w1 \in {1, 2}, w2 \in {1, 2}}

InitPath ==
    /\ prof \in PathProfiles
    /\ pc = "idle"
    /\ res = NoResult
    /\ dd = NoDrilldown
    /\ wk = NoWalk
    /\ raw = NoFile
    /\ disk = NoSessionFile
    /\ srv = NoServer
    /\ prev = NoResult

NextPath ==
    \/ DrilldownStart
    \/ DrilldownEscape
    \/ DrilldownVisit
    \/ DrilldownFinish
    \/ Return

SpecPath == InitPath /\ [][NextPath]_vars

\* the functions of the first n nodes of a path
PathFunctions(path, n) == {path[k].function : k \in 1..n}

\* the first callee of a percent-descending list that is not in visited
FirstUnvisited(callees, visited) ==
    LET cand == SelectSeq(callees, LAMBDA c : c.name \notin visited)
    IN  IF cand = <<>> THEN None ELSE Some(Head(cand))

\* node i of the path is the callee the walk is said to take from node i - 1
StepOk(path, i) ==
    LET callees == path[i - 1].callees
        visited == PathFunctions(path, i - 1)
    IN  /\ \E k \in DOMAIN callees : callees[k].name = path[i].function
        /\ IF callees[1].name \notin visited
           THEN path[i].function = callees[1].name
           ELSE FirstUnvisited(callees, visited) = Some(
                    CHOOSE c \in {callees[k] : k \in DOMAIN callees} :
                        c.name = path[i].function)

\* C26: in the path of a drilldown every node after the first is a callee of
\* the node before it: callees[0] when that one is unvisited, else the
\* first unvisited callee of the percent-descending list; and a walk that
\* left the loop below a node that is no bottleneck found no unvisited callee
C26_HotPath ==
    (pc = "drill") =>
        /\ \A i \in 2..Len(dd.path) : StepOk(dd.path, i)
        /\ (/\ dd.broke
            /\ dd.path # <<>>
            /\ dd.path[Len(dd.path)].is_bottleneck = None) =>
               FirstUnvisited(dd.path[Len(dd.path)].callees, dd.visited) = None

\* the walk took an unvisited callee after finding callees[0] visited
C26_Witness ==
    /\ pc = "drill"
    /\ \E i \in 2..Len(dd.path) :
          /\ dd.path[i - 1].callees[1].name \in PathFunctions(dd.path, i - 1)
          /\ StepOk(dd.path, i)

\* ------------------------------------------------------------------------
\* The aggregation passes side by side
\* ------------------------------------------------------------------------
\* "a" calls "b" calls "a" calls "b": one stack holds the same edge twice
AlternatingStackTable ==
    StackTable(<<None, Some(0), Some(1), Some(2)>>, <<1, 0, 1, 0>>)

\* one thread over a stack table of four entries with two samples, with and
\* without a stack; the same thread followed by a second one; and one
\* thread with three samples, the last without a stack
PassProfiles ==
    {Profile(<<ThreadData(<<"m">>, <<B, A>>, <<0, 1, 2>>, st,
                          <<Sample(s1, w1), Sample(s2, w2)>>)>>) :
         st \in {RecursiveStackTable, AlternatingStackTable},
         s1 \in {Some(2), Some(3)}, s2 \in {None, Some(1), Some(3)},
         w1 \in Weights, w2 \in Weights}
    \cup {Profile(<<ThreadData(<<"m">>, <<B, A>>, <<0, 1, 2>>, AlternatingStackTable,
                               <<Sample(Some(3), 2)>>), t2>>) :
              t2 \in SecondThreads}
    \cup {Profile(<<ThreadData(<<"m">>, <<B, A>>, <<0, 1, 2>>, st,
                               <<Sample(Some(3), 2), Sample(Some(1), 1), Sample(None, w)>>)>>) :
              st \in {RecursiveStackTable, AlternatingStackTable}, w \in Weights}

NoPasses ==
    [kind |-> "passes", caller_data |-> None, callee_data |-> None,
     drilldown |-> None, hotspots |-> None, asm |-> None, summary |-> None]

InitPasses ==
    /\ prof \in PassProfiles
    /\ pc = "idle"
    /\ res = NoPasses
    /\ dd = NoDrilldown
    /\ wk = NoWalk
    /\ raw = NoFile
    /\ disk = NoSessionFile
    /\ srv = NoServer
    /\ prev = NoResult

\* the sample loop of find_callers
CallersPass ==
    /\ res.kind = "passes" /\ res.caller_data = None
    /\ res' = [res EXCEPT !.caller_data = Some(CallerData(prof))]
    /\ UNCHANGED <<prof, pc, dd, wk>>
    /\ UNCHANGED hostvars

\* the sample loop of find_callees
CalleesPass ==
    /\ res.kind = "passes" /\ res.callee_data = None
    /\ res' = [res EXCEPT !.callee_data = Some(CalleeData(prof))]
    /\ UNCHANGED <<prof, pc, dd, wk>>
    /\ UNCHANGED hostvars

\* the sample loop of drilldown
DrilldownPass ==
    /\ res.kind = "passes" /\ res.drilldown = None
    /\ res' = [res EXCEPT !.drilldown = Some(DrilldownAggregate(prof))]
    /\ UNCHANGED <<prof, pc, dd, wk>>
    /\ UNCHANGED hostvars

\* the sample loop of compute_hotspots without a thread filter
HotspotsPass ==
    /\ res.kind = "passes" /\ res.hotspots = None
    /\ res' = [res EXCEPT !.hotspots = Some(HotspotsAggregate(prof, None))]
    /\ UNCHANGED <<prof, pc, dd, wk>>
    /\ UNCHANGED hostvars

\* get_asm(pattern) up to the end of its sample loop
AsmPass ==
    /\ res.kind = "passes" /\ res.asm = None
    /\ \E pattern \in Patterns :
          LET target == find_matching_function(prof, pattern)
          IN  res' = [res EXCEPT !.asm =
                         Some([target |-> target,
                               self_samples |-> AsmAggregate(prof, target).self_samples])]
    /\ UNCHANGED <<prof, pc, dd, wk>>
    /\ UNCHANGED hostvars

\* total_samples of get_summary
SummaryPass ==
    /\ res.kind = "passes" /\ res.summary = None
    /\ res' = [res EXCEPT !.summary =
                  Some([total_samples |->
                           SumSeq([ti \in DOMAIN prof.threads |->
                                      SumSeq([si \in DOMAIN prof.threads[ti].samples |->
                                                 prof.threads[ti].samples[si].weight])])])]
    /\ UNCHANGED <<prof, pc, dd, wk>>
    /\ UNCHANGED hostvars

\* the analyzer is read-only: a new round of queries starts from nothing
PassesReturn ==
    /\ res.kind = "passes" /\ res # NoPasses
    /\ res' = NoPasses
    /\ UNCHANGED <<prof, pc, dd, wk>>
    /\ UNCHANGED hostvars

NextPasses ==
    \/ CallersPass
    \/ CalleesPass
    \/ DrilldownPass
    \/ HotspotsPass
    \/ AsmPass
    \/ SummaryPass
    \/ PassesReturn

SpecPasses == InitPasses /\ [][NextPasses]_vars

\* the count a FuncData map holds for the edge outer -> inner, 0 without one
CountOf(m, outer, inner) ==
    IF outer \in DOMAIN m /\ inner \in DOMAIN m[outer] THEN m[outer][inner].count ELSE 0

\* the samples callee_map holds for the edge caller -> callee, 0 without one
SamplesOf(cm, caller, callee) ==
    IF caller \in DOMAIN cm /\ callee \in DOMAIN cm[caller] THEN cm[caller][callee] ELSE 0

\* C28: for every pair of functions x, y the weight find_callers records for
\* caller y of callee x, the weight find_callees records for callee x of
\* caller y and callee_map[y][x] of drilldown are each the sum over all
\* samples of all threads of weight times the number of places where x is
\* immediately leaf-side of y; none of the maps has an edge beyond these
C28_EdgeWeights ==
    (res.kind = "passes") =>
        \A x \in {A, B, AB}, y \in {A, B, AB} :
            /\ IsSome(res.caller_data) =>
                  /\ CountOf(Unwrap(res.caller_data), x, y) = EdgeWeight(prof, x, y)
                  /\ DOMAIN Unwrap(res.caller_data) \subseteq {A, B, AB}
                  /\ \A k \in DOMAIN Unwrap(res.caller_data) :
                        DOMAIN Unwrap(res.caller_data)[k] \subseteq {A, B, AB}
            /\ IsSome(res.callee_data) =>
                  /\ CountOf(Unwrap(res.callee_data), y, x) = EdgeWeight(prof, x, y)
                  /\ DOMAIN Unwrap(res.callee_data) \subseteq {A, B, AB}
                  /\ \A k \in DOMAIN Unwrap(res.callee_data) :
                        DOMAIN Unwrap(res.callee_data)[k] \subseteq {A, B, AB}
            /\ IsSome(res.drilldown) =>
                  /\ SamplesOf(Unwrap(res.drilldown).callee_map, y, x) = EdgeWeight(prof, x, y)
                  /\ DOMAIN Unwrap(res.drilldown).callee_map \subseteq {A, B, AB}
                  /\ \A k \in DOMAIN Unwrap(res.drilldown).callee_map :
                        DOMAIN Unwrap(res.drilldown).callee_map[k] \subseteq {A, B, AB}

\* all three maps are there, and the edge from "a" to its caller "b" weighs 4:
\* a sample of weight 2 whose stack holds it twice
C28_Witness ==
    /\ res.kind = "passes"
    /\ IsSome(res.caller_data) /\ IsSome(res.callee_data) /\ IsSome(res.drilldown)
    /\ Len(prof.threads) = 2
    /\ EdgeWeight(prof, B, A) = 4
    /\ EdgeWeight(prof, A, B) # EdgeWeight(prof, B, A)
    /\ CountOf(Unwrap(res.caller_data), B, A) = 4

\* what a drilldown path node for f carries: func_stats.get(f), or (0, 0)
NodeStats(drilldown, f) == StatsOf(drilldown.func_stats, f)

\* C29: the passes agree: compute_hotspots without a filter and drilldown
\* aggregate the same functions with the same self_samples and
\* total_samples, self_samples of get_asm for a function is the hotspot
\* self_samples of that function, and total_samples of drilldown, of
\* get_summary and total_weight of compute_hotspots are one number
C29_PassesAgree ==
    (res.kind = "passes") =>
        /\ (IsSome(res.hotspots) /\ IsSome(res.drilldown)) =>
              LET hs == Unwrap(res.hotspots)
                  dr == Unwrap(res.drilldown)
              IN  /\ DOMAIN hs.func_stats = DOMAIN dr.func_stats
                  /\ \A f \in DOMAIN hs.func_stats :
                        /\ hs.func_stats[f].self_samples = NodeStats(dr, f).self_samples
                        /\ hs.func_stats[f].total_samples = NodeStats(dr, f).total_samples
                  /\ dr.total_weight = hs.total_weight
        /\ (IsSome(res.hotspots) /\ IsSome(res.asm)) =>
              LET hs == Unwrap(res.hotspots)
                  f == Unwrap(res.asm).target
              IN  Unwrap(res.asm).self_samples =
                     (IF f \in DOMAIN hs.func_stats THEN hs.func_stats[f].self_samples ELSE 0)
        /\ (IsSome(res.summary) /\ IsSome(res.drilldown)) =>
              Unwrap(res.summary).total_samples = Unwrap(res.drilldown).total_weight
        /\ (IsSome(res.summary) /\ IsSome(res.hotspots)) =>
              Unwrap(res.summary).total_samples = Unwrap(res.hotspots).total_weight

\* all four passes ran on a profile with a sample without a stack; the
\* function given to get_asm is a leaf of some samples but not of all, and
\* is deeper in other stacks
C29_Witness ==
    /\ res.kind = "passes"
    /\ IsSome(res.hotspots) /\ IsSome(res.drilldown)
    /\ IsSome(res.asm) /\ IsSome(res.summary)
    /\ \E ti \in DOMAIN prof.threads : \E si \in DOMAIN prof.threads[ti].samples :
          prof.threads[ti].samples[si].stack = None
    /\ LET hs == Unwrap(res.hotspots)
           f == Unwrap(res.asm).target
       IN  /\ f \in DOMAIN hs.func_stats
           /\ Unwrap(res.asm).self_samples # 0
           /\ hs.func_stats[f].total_samples # hs.func_stats[f].self_samples
           /\ \E g \in DOMAIN hs.func_stats : g # f /\ hs.func_stats[g].self_samples # 0

\* ------------------------------------------------------------------------
\* Several `samply analyze serve` commands and the one session file
\* ------------------------------------------------------------------------
NumServes == 2

Invocations == 1..NumServes

\* std::process::id() of invocation i
PidOf(i) == OwnPid + i - 1

\* Session::new(token_url, profile_path) of invocation i: each server binds
\* a port of its own
SessionOf(i) ==
    [server_url |-> IF i = 1 THEN <<"/", "a">> ELSE <<"/">> \o [k \in 1..i |-> "a"],
     profile_path |-> <<"/", "a">>, pid |-> PidOf(i), started_at |-> <<"a">>]

\* an invocation: where it is, the session it loaded, its accept loop, and
\* whether sess.save() wrote the file
InvocationAt(state) ==
    [state |-> state, loaded |-> None, loop |-> "none", saved |-> FALSE, code |-> -1]

\* kill -0 pid: the process exists (a command that runs, from its launch to
\* its exit, is a process)
is_server_alive(server, pid) ==
    \E i \in Invocations :
        PidOf(i) = pid /\ server.inv[i].state \notin {"idle", "exited"}

InitRace ==
    /\ disk \in InitialSessionFiles
    /\ srv = [state |-> "race", inv |-> [i \in Invocations |-> InvocationAt("idle")]]
    /\ raw = NoFile
    /\ pc = "idle"
    /\ prof = Profile(<<>>)
    /\ res = NoResult
    /\ dd = NoDrilldown
    /\ wk = NoWalk
    /\ prev = NoResult

\* invocation i moves to inv, with the session file as file
RaceStep(i, inv, file) ==
    /\ srv' = [srv EXCEPT !.inv[i] = inv]
    /\ disk' = file
    /\ UNCHANGED <<prof, pc, res, dd, wk, raw, prev>>

\* the command is started; the profile file exists
RaceLaunch(i) ==
    /\ srv.state = "race" /\ srv.inv[i].state = "idle"
    /\ RaceStep(i, InvocationAt("launched"), disk)

\* if session::Session::exists()
RaceExists(i) ==
    /\ srv.state = "race" /\ srv.inv[i].state = "launched"
    /\ RaceStep(i, InvocationAt(IF disk = NoSessionFile THEN "ready" ELSE "exists"), disk)

\* if let Ok(existing) = session::Session::load()
RaceLoad(i) ==
    /\ srv.state = "race" /\ srv.inv[i].state = "exists"
    /\ LET parsed == IF disk = NoSessionFile THEN ParseFailed ELSE from_str(Unwrap(disk))
       IN  RaceStep(i, IF parsed.ok
                       THEN [InvocationAt("loaded") EXCEPT !.loaded = Some(parsed.value)]
                       ELSE InvocationAt("ready"),
                    disk)

\* if existing.is_server_alive() { exit(1) }
RaceAlive(i) ==
    /\ srv.state = "race" /\ srv.inv[i].state = "loaded"
    /\ RaceStep(i, IF is_server_alive(srv, Unwrap(srv.inv[i].loaded).pid)
                   THEN [srv.inv[i] EXCEPT !.state = "exited", !.code = 1]
                   ELSE [srv.inv[i] EXCEPT !.state = "stale"],
                disk)

\* let _ = session::Session::remove(): whatever file is at the path now
RaceRemoveStale(i) ==
    /\ srv.state = "race" /\ srv.inv[i].state = "stale"
    /\ RaceStep(i, InvocationAt("ready"), NoSessionFile)

\* start_analysis_server: the profile is loaded, a port bound and the accept
\* loop spawned; or it fails and the command exits
RaceStart(i) ==
    /\ srv.state = "race" /\ srv.inv[i].state = "ready"
    /\ \E ok \in BOOLEAN :
          RaceStep(i, IF ok THEN [srv.inv[i] EXCEPT !.state = "spawned", !.loop = "accepting"]
                      ELSE [srv.inv[i] EXCEPT !.state = "exited", !.code = 1],
                   disk)

\* sess.save(): fs::write replaces the file; a failure is a warning only
RaceSave(i) ==
    /\ srv.state = "race" /\ srv.inv[i].state = "spawned"
    /\ \E written \in BOOLEAN :
          RaceStep(i, [srv.inv[i] EXCEPT !.state = "serving", !.saved = written],
                   IF written THEN Some(to_string_pretty(SessionOf(i))) ELSE disk)

\* Ctrl+C: the accept loop of invocation i returns
RaceLoopEnds(i) ==
    /\ srv.state = "race" /\ srv.inv[i].state = "serving"
    /\ srv.inv[i].loop = "accepting"
    /\ RaceStep(i, [srv.inv[i] EXCEPT !.loop = "ended"], disk)

\* server_join_handle.await; let _ = session::Session::remove()
RaceRemove(i) ==
    /\ srv.state = "race" /\ srv.inv[i].state = "serving"
    /\ srv.inv[i].loop = "ended"
    /\ RaceStep(i, [srv.inv[i] EXCEPT !.state = "removed"], NoSessionFile)

\* block_on returns and main ends
RaceExit(i) ==
    /\ srv.state = "race" /\ srv.inv[i].state = "removed"
    /\ RaceStep(i, [srv.inv[i] EXCEPT !.state = "exited", !.code = 0], disk)

NextRace ==
    \E i \in Invocations :
        \/ RaceLaunch(i)
        \/ RaceExists(i)
        \/ RaceLoad(i)
        \/ RaceAlive(i)
        \/ RaceRemoveStale(i)
        \/ RaceStart(i)
        \/ RaceSave(i)
        \/ RaceLoopEnds(i)
        \/ RaceRemove(i)
        \/ RaceExit(i)

SpecRace == InitRace /\ [][NextRace]_vars

\* the server of invocation i has saved its session and still runs
RunsSaved(server, i) ==
    /\ server.inv[i].state = "serving"
    /\ server.inv[i].saved
    /\ server.inv[i].loop = "accepting"

\* the session file names the server of invocation i
Names(file, i) == file = Some(to_string_pretty(SessionOf(i)))

\* C30: with several serve commands and no stop command, while a server
\* that saved its session runs the session file names it; a command that
\* finds the session of a live process exits without starting a server and
\* leaves the file as it is; and no command's step changes or removes the
\* file while it names the running server of another command
C30_SessionNamesRunningServer ==
    /\ [](\A i \in Invocations : RunsSaved(srv, i) => Names(disk, i))
    /\ [][\A i \in Invocations :
             (/\ srv.inv[i].state = "loaded"
              /\ is_server_alive(srv, Unwrap(srv.inv[i].loaded).pid)
              /\ srv'.inv[i] # srv.inv[i]) =>
                 (srv'.inv[i].state = "exited" /\ disk' = disk)]_vars
    /\ [][\A i \in Invocations :
             (RunsSaved(srv, i) /\ Names(disk, i) /\ srv'.inv[i] = srv.inv[i]) =>
                 disk' = disk]_vars

====
